---- MODULE Spec2Model ----
(***************************************************************************)
(* A model of react-trie-autocomplete: the RadixTrie of src/src/radix.ts   *)
(* (insert with edge splitting, ranked prefix search, counters), the       *)
(* packed text codec of src/src/pack.ts (packTrie, parse, unpackTrie,      *)
(* label escaping, createTrieHandler), the AutocompleteTrie, and the       *)
(* TrieAutocomplete component of src/src/Autocomplete.tsx (input events,   *)
(* suggestions, the fetch of a packed trie from src).                      *)
(*                                                                         *)
(* Strings are sequences of one-character strings: "car" is                *)
(* <<"c","a","r">>.  Positions are 0-based as in the source; the sequence  *)
(* element at source position p is s[p+1].  Scores are integers counting   *)
(* thousandths, so 900 is the score 0.9.                                   *)
(***************************************************************************)
EXTENDS Integers, Sequences, FiniteSets, TLC

VARIABLES
    caseSensitive,  \* RadixTrie.caseSensitive
    nodes,          \* the RadixNode objects in creation order; nodes[1] is RadixTrie.root
    size,           \* RadixTrie._size
    nodeCount,      \* RadixTrie._nodeCount
    inserted,       \* history: the entries passed to insert, in call order
    searched,       \* <<the latest search call and what it returned>>, <<>> before the first
    entriesIn,      \* the entry list the caller packs
    precision,      \* options.scorePrecision of the caller
    packer,         \* the TriePacker of the latest packTrie call, <<>> before the first
    packed,         \* <<the packed text in hand>>, <<>> when there is none
    outputs,        \* history: the strings packTrie has returned for entriesIn
    calls,          \* history: the codec functions called, in call order
    unpackResult,   \* how the latest unpackTrie call ended
    parsedNodes,    \* the node records parse built in the latest unpackTrie call
    labelIn,        \* the edge label given to escapeLabel
    escaped,        \* <<what escapeLabel returned>>, <<>> before the call
    unescaped,      \* <<what unescapeLabel returned>>, <<>> before the call
    handler,        \* <<the closure createTrieHandler returned>>, <<>> before the call
    cached,         \* the handler's cached string, <<>> while it is null
    responses,      \* history: what each request to the handler was answered with
    props,          \* the props TrieAutocomplete is rendered with
    inputValue,     \* the value of the input
    isOpen,         \* the component's isOpen state
    highlightIndex, \* the component's highlightIndex state
    suggestions,    \* the component's suggestions state
    blurTimers,     \* the number of handleBlur timeouts not yet fired
    onChangeCalls,  \* the values onChange was called with in the latest event
    onSelectCalls,  \* the entries onSelect was called with in the latest event
    lastEvent,      \* the latest event the component has handled
    fetchedTrie,    \* the component's fetchedTrie state, <<>> while it is null
    isLoading,      \* the component's isLoading state
    fetches,        \* the fetches the src effect has started, in order of start
    mounted,        \* the component is mounted
    onLoadCalls,    \* the stats onLoad was called with in the latest event
    packedTrie      \* the packedTrie memo, <<>> while it is null

trieVars == <<caseSensitive, nodes, size, nodeCount, inserted, searched>>
packVars == <<entriesIn, precision, packer, packed, outputs, calls, unpackResult,
              parsedNodes>>
escapeVars == <<labelIn, escaped, unescaped>>
handlerVars == <<handler, cached, responses>>
uiVars == <<props, inputValue, isOpen, highlightIndex, suggestions, blurTimers,
            onChangeCalls, onSelectCalls, lastEvent,
            fetchedTrie, isLoading, fetches, mounted, onLoadCalls, packedTrie>>
vars == <<trieVars, packVars, escapeVars, handlerVars, uiVars>>

\* ------------------------------------------------------------------------
\* Characters and strings
\* ------------------------------------------------------------------------

LowerLetters ==
    <<"a","b","c","d","e","f","g","h","i","j","k","l","m",
      "n","o","p","q","r","s","t","u","v","w","x","y","z">>

UpperLetters ==
    <<"A","B","C","D","E","F","G","H","I","J","K","L","M",
      "N","O","P","Q","R","S","T","U","V","W","X","Y","Z">>

IndexIn(seq, x) ==
    IF \E i \in 1..Len(seq) : seq[i] = x
    THEN CHOOSE i \in 1..Len(seq) : seq[i] = x
    ELSE 0

\* Primary collation order of the root collation that localeCompare uses:
\* white space, then punctuation, then digits, then letters.
Punctuation == <<"\n", " ", "-", ",", ":", ".", "\\", ">", "|">>

Digits == <<"0","1","2","3","4","5","6","7","8","9">>

\* the characters of the model
Chars ==
    {LowerLetters[i] : i \in 1..26} \cup {UpperLetters[i] : i \in 1..26}
        \cup {Punctuation[i] : i \in 1..Len(Punctuation)}
        \cup {Digits[i] : i \in 1..10}

upperSet == {UpperLetters[i] : i \in 1..26}

lowerOf ==
    [c \in Chars |->
        IF IndexIn(UpperLetters, c) # 0
        THEN LowerLetters[IndexIn(UpperLetters, c)]
        ELSE c]

rankOf ==
    [c \in Chars |->
        IF IndexIn(Punctuation, c) # 0 THEN IndexIn(Punctuation, c)
        ELSE IF IndexIn(Digits, c) # 0 THEN 20 + IndexIn(Digits, c)
        ELSE 40 + IndexIn(LowerLetters, lowerOf[c])]

IsUpper(c) == c \in upperSet

ToLowerChar(c) == lowerOf[c]

\* String.prototype.toLowerCase on the characters of the model
ToLowerCase(s) == [i \in 1..Len(s) |-> ToLowerChar(s[i])]

\* String.prototype.slice(from): the characters from 0-based position from on
SliceFrom(s, from) == SubSeq(s, from + 1, Len(s))

\* String.prototype.slice(0, to)
SliceTo(s, to) == SubSeq(s, 1, to)

Min(a, b) == IF a < b THEN a ELSE b

Max(a, b) == IF a > b THEN a ELSE b

\* letters of both cases share a primary rank
PrimaryRank(c) == rankOf[c]

\* sign of the lexicographic comparison of two strings under a character rank
RECURSIVE LexCompare(_, _, _)
LexCompare(a, b, i) ==
    IF i > Len(a) /\ i > Len(b) THEN 0
    ELSE IF i > Len(a) THEN -1
    ELSE IF i > Len(b) THEN 1
    ELSE IF PrimaryRank(a[i]) < PrimaryRank(b[i]) THEN -1
    ELSE IF PrimaryRank(a[i]) > PrimaryRank(b[i]) THEN 1
    ELSE LexCompare(a, b, i + 1)

\* the case level: at the first position whose case differs, lower case first
RECURSIVE CaseCompare(_, _, _)
CaseCompare(a, b, i) ==
    IF i > Len(a) \/ i > Len(b) THEN 0
    ELSE IF a[i] = b[i] THEN CaseCompare(a, b, i + 1)
    ELSE IF IsUpper(b[i]) THEN -1 ELSE 1

\* String.prototype.localeCompare: -1, 0 or 1
LocaleCompare(a, b) ==
    IF LexCompare(a, b, 1) # 0 THEN LexCompare(a, b, 1) ELSE CaseCompare(a, b, 1)

\* ------------------------------------------------------------------------
\* RadixTrie (src/src/radix.ts)
\* ------------------------------------------------------------------------

createRadixNode == [children |-> <<>>, entries |-> <<>>]

\* Map.get on a node's children: the position of the edge keyed ch, 0 if none
MapIndex(children, ch) ==
    IF \E i \in 1..Len(children) : children[i].key = ch
    THEN CHOOSE i \in 1..Len(children) : children[i].key = ch
    ELSE 0

\* a variant that adds an edge without looking for the key
MapSetAppend(children, ch, label, node) ==
    Append(children, [key |-> ch, label |-> label, node |-> node])

\* Map.set: a new key goes last, an existing key keeps its place
MapSet(children, ch, label, node) ==
    IF MapIndex(children, ch) = 0
    THEN Append(children, [key |-> ch, label |-> label, node |-> node])
    ELSE [children EXCEPT ![MapIndex(children, ch)] =
              [key |-> ch, label |-> label, node |-> node]]

\* a variant that folds case in every mode
normalizeLower(cs, text) == ToLowerCase(text)

\* RadixTrie.normalize
normalize(cs, text) == IF cs THEN text ELSE ToLowerCase(text)

\* a variant of the loop that stops one character early
RECURSIVE commonPrefixShort(_, _, _, _, _)
commonPrefixShort(label, text, pos, j, maxJ) ==
    IF j < maxJ - 1 /\ label[j + 1] = text[pos + j + 1]
    THEN commonPrefixShort(label, text, pos, j + 1, maxJ)
    ELSE j

\* the while loop of insertAt: the common prefix length of label and text[pos..]
RECURSIVE commonPrefix(_, _, _, _, _)
commonPrefix(label, text, pos, j, maxJ) ==
    IF j < maxJ /\ label[j + 1] = text[pos + j + 1]
    THEN commonPrefix(label, text, pos, j + 1, maxJ)
    ELSE j

\* a variant that keeps only the latest entry of a node
storeAtNodeReplace(st, node, entry) ==
    [st EXCEPT !.nodes[node].entries = <<entry>>]

\* what insertAt does when the text is exhausted at node
storeAtNode(st, node, entry) ==
    [st EXCEPT !.nodes[node].entries = Append(@, entry)]

\* RadixTrie.insertAt on the trie st = [nodes, nodeCount]
\* a variant that counts every created node twice
nodeCountAfterTwice(st, created) == st.nodeCount + 2 * created

\* this._nodeCount++, once for each node created
nodeCountAfter(st, created) == st.nodeCount + created

RECURSIVE insertAt(_, _, _, _, _)
insertAt(st, node, text, pos, entry) ==
    IF pos >= Len(text)
    THEN storeAtNode(st, node, entry)
    ELSE
      LET ch == text[pos + 1]
          ei == MapIndex(st.nodes[node].children, ch)
      IN
      IF ei = 0
      THEN
        LET leaf == Len(st.nodes) + 1
        IN [nodes |->
                Append([st.nodes EXCEPT ![node].children =
                            MapSet(@, ch, SliceFrom(text, pos), leaf)],
                       [children |-> <<>>, entries |-> <<entry>>]),
            nodeCount |-> nodeCountAfter(st, 1)]
      ELSE
        LET edge == st.nodes[node].children[ei]
            label == edge.label
            maxJ == Min(Len(label), Len(text) - pos)
            j == commonPrefix(label, text, pos, 0, maxJ)
        IN
        IF j = Len(label)
        THEN insertAt(st, edge.node, text, pos + j, entry)
        ELSE
          LET splitNode == Len(st.nodes) + 1
              newLeaf == Len(st.nodes) + 2
              reattached ==
                  MapSet(<<>>, label[j + 1], SliceFrom(label, j), edge.node)
              parentSet ==
                  [st.nodes EXCEPT ![node].children =
                       MapSet(@, ch, SliceTo(label, j), splitNode)]
          IN
          IF pos + j >= Len(text)
          THEN [nodes |->
                    Append(parentSet,
                           [children |-> reattached, entries |-> <<entry>>]),
                nodeCount |-> nodeCountAfter(st, 1)]
          ELSE [nodes |->
                    Append(Append(parentSet,
                                  [children |->
                                       MapSet(reattached, text[pos + j + 1],
                                              SliceFrom(text, pos + j), newLeaf),
                                   entries |-> <<>>]),
                           [children |-> <<>>, entries |-> <<entry>>]),
                nodeCount |-> nodeCountAfter(st, 2)]

\* RadixTrie.insert on the trie t = [caseSensitive, nodes, size, nodeCount]
insert(t, text, score, data) ==
    LET entry == [text |-> text, score |-> score, data |-> data]
        normalized == normalize(t.caseSensitive, text)
        st == insertAt([nodes |-> t.nodes, nodeCount |-> t.nodeCount],
                       1, normalized, 0, entry)
    IN [caseSensitive |-> t.caseSensitive,
        nodes |-> st.nodes,
        size |-> t.size + 1,
        nodeCount |-> st.nodeCount]

\* new RadixTrie(options)
newRadixTrie(cs) ==
    [caseSensitive |-> cs, nodes |-> <<createRadixNode>>, size |-> 0, nodeCount |-> 1]

\* a variant that trusts the child map's key: only the first character is compared
labelMatchesFirstChar(label, text, pos, n) ==
    n > 0 => label[1] = text[pos + 1]

\* the two for loops of findPrefixNode: label[0..n) = text[pos..pos+n)
labelMatches(label, text, pos, n) ==
    \A j \in 0..(n - 1) : label[j + 1] = text[pos + j + 1]

\* RadixTrie.findPrefixNode: the node found, 0 for null
RECURSIVE findPrefixFrom(_, _, _, _)
findPrefixFrom(ns, node, text, pos) ==
    IF pos >= Len(text) THEN node
    ELSE
      LET ei == MapIndex(ns[node].children, text[pos + 1])
      IN
      IF ei = 0 THEN 0
      ELSE
        LET edge == ns[node].children[ei]
            label == edge.label
            remaining == Len(text) - pos
        IN
        IF remaining <= Len(label)
        THEN IF labelMatches(label, text, pos, remaining) THEN edge.node ELSE 0
        ELSE IF labelMatches(label, text, pos, Len(label))
             THEN findPrefixFrom(ns, edge.node, text, pos + Len(label))
             ELSE 0

findPrefixNode(ns, text) == findPrefixFrom(ns, 1, text, 0)

\* RadixTrie.collectAll: the node's entries, then each child's subtree in Map order
RECURSIVE collectAll(_, _)
RECURSIVE collectChildren(_, _, _)
collectChildren(ns, children, i) ==
    IF i > Len(children) THEN <<>>
    ELSE collectAll(ns, children[i].node) \o collectChildren(ns, children, i + 1)

collectAll(ns, node) ==
    ns[node].entries \o collectChildren(ns, ns[node].children, 1)

\* a variant of walk that counts the edges, not their characters
RECURSIVE walkCountEdges(_, _)
RECURSIVE walkCountEdgesFrom(_, _, _)
walkCountEdgesFrom(ns, children, i) ==
    IF i > Len(children) THEN 0
    ELSE 1 + walkCountEdges(ns, children[i].node)
           + walkCountEdgesFrom(ns, children, i + 1)

walkCountEdges(ns, node) == walkCountEdgesFrom(ns, ns[node].children, 1)

\* walk of stats: the label lengths of the edges below the node
RECURSIVE walk(_, _)
RECURSIVE walkFrom(_, _, _)
walkFrom(ns, children, i) ==
    IF i > Len(children) THEN 0
    ELSE Len(children[i].label) + walk(ns, children[i].node)
           + walkFrom(ns, children, i + 1)

walk(ns, node) == walkFrom(ns, ns[node].children, 1)

\* a variant of stats whose totalEdgeChars is the number of edges
statsCountEdges(t) ==
    [entryCount |-> t.size, nodeCount |-> t.nodeCount,
     totalEdgeChars |-> walkCountEdges(t.nodes, 1)]

\* RadixTrie.stats
stats(t) ==
    [entryCount |-> t.size, nodeCount |-> t.nodeCount,
     totalEdgeChars |-> walk(t.nodes, 1)]

\* a variant of the comparator without the tie-break on text
compareScoresOnly(a, b) == b.score - a.score

\* the comparator of search: negative when a goes first
compareEntries(a, b) ==
    IF b.score # a.score THEN b.score - a.score
    ELSE LocaleCompare(a.text, b.text)

\* Array.prototype.sort is stable: x goes after every element not after it
sortInsert(sorted, x) ==
    LET k == Cardinality({i \in 1..Len(sorted) : compareEntries(sorted[i], x) <= 0})
    IN SubSeq(sorted, 1, k) \o <<x>> \o SubSeq(sorted, k + 1, Len(sorted))

RECURSIVE sortFrom(_, _, _)
sortFrom(sorted, s, i) ==
    IF i > Len(s) THEN sorted ELSE sortFrom(sortInsert(sorted, s[i]), s, i + 1)

sortResults(s) == sortFrom(<<>>, s, 1)

\* Array.prototype.slice(0, limit)
sliceLimit(s, limit) ==
    IF limit >= 0 THEN SubSeq(s, 1, Min(limit, Len(s)))
    ELSE SubSeq(s, 1, Max(Len(s) + limit, 0))

\* RadixTrie.search
search(cs, ns, prefix, limit) ==
    LET normalized == normalize(cs, prefix)
        node == findPrefixNode(ns, normalized)
    IN IF node = 0 THEN <<>>
       ELSE sliceLimit(sortResults(collectAll(ns, node)), limit)

\* a variant of search that sorts the entry list of the prefix node in place
afterSearchSortedInPlace(t, prefix, limit) ==
    LET node == findPrefixNode(t.nodes, normalize(t.caseSensitive, prefix))
    IN IF node = 0 THEN t
       ELSE [t EXCEPT !.nodes[node].entries = sortResults(@)]

\* the trie after search(prefix, limit): search, findPrefixNode and collectAll
\* assign no field of the trie or of a node; push, sort and slice act on the
\* local results array
afterSearch(t, prefix, limit) == t

\* ------------------------------------------------------------------------
\* Strings of the packed format (src/src/pack.ts)
\* ------------------------------------------------------------------------

\* Array.prototype.join
RECURSIVE Join(_, _)
Join(parts, sep) ==
    IF Len(parts) = 0 THEN <<>>
    ELSE IF Len(parts) = 1 THEN parts[1]
    ELSE parts[1] \o sep \o Join(Tail(parts), sep)

IsAt(str, sep, i) ==
    /\ i + Len(sep) - 1 <= Len(str)
    /\ SubSeq(str, i, i + Len(sep) - 1) = sep

\* String.prototype.split with a non-empty separator string: the pieces
\* between the occurrences of sep, found from the left without overlap
RECURSIVE SplitFrom(_, _, _, _)
SplitFrom(str, sep, i, start) ==
    IF i > Len(str) THEN <<SubSeq(str, start, Len(str))>>
    ELSE IF IsAt(str, sep, i)
         THEN <<SubSeq(str, start, i - 1)>>
                  \o SplitFrom(str, sep, i + Len(sep), i + Len(sep))
         ELSE SplitFrom(str, sep, i + 1, start)

Split(str, sep) == SplitFrom(str, sep, 1, 1)

WhiteSpace == {"\n", " "}

\* String.prototype.trim
RECURSIVE TrimLeft(_)
TrimLeft(s) ==
    IF Len(s) > 0 /\ s[1] \in WhiteSpace THEN TrimLeft(Tail(s)) ELSE s

RECURSIVE TrimRight(_)
TrimRight(s) ==
    IF Len(s) > 0 /\ s[Len(s)] \in WhiteSpace
    THEN TrimRight(SubSeq(s, 1, Len(s) - 1))
    ELSE s

Trim(s) == TrimRight(TrimLeft(s))

DigitSet == {Digits[i] : i \in 1..10}

DigitValue(c) == IndexIn(Digits, c) - 1

Base36Digits == Digits \o LowerLetters

Range36 == {Base36Digits[i] : i \in 1..Len(Base36Digits)}

\* Number.prototype.toString(radix) of a non-negative integer
RECURSIVE ToRadix(_, _)
ToRadix(n, radix) ==
    IF n < radix THEN <<Base36Digits[n + 1]>>
    ELSE ToRadix(n \div radix, radix) \o <<Base36Digits[(n % radix) + 1]>>

RECURSIVE Pow10(_)
Pow10(p) == IF p = 0 THEN 1 ELSE 10 * Pow10(p - 1)

\* the digits of n, padded on the left with zeros to width w
RECURSIVE PadDigits(_, _)
PadDigits(n, w) ==
    IF w = 0 THEN <<>> ELSE PadDigits(n \div 10, w - 1) \o <<Digits[(n % 10) + 1]>>

\* Number.prototype.toFixed(p) of a non-negative score in thousandths, p <= 3:
\* the nearest multiple of 10^-p, the larger one of two equally near
ToFixed(score, p) ==
    LET n == (score * Pow10(p) + 500) \div 1000
    IN ToRadix(n \div Pow10(p), 10)
           \o (IF p > 0 THEN <<".">> \o PadDigits(n % Pow10(p), p) ELSE <<>>)

\* the value of Number and parseInt on text that is no number
NaN == -1000000000

RECURSIVE DigitsValue(_)
DigitsValue(ds) ==
    IF Len(ds) = 0 THEN 0
    ELSE 10 * DigitsValue(SubSeq(ds, 1, Len(ds) - 1)) + DigitValue(ds[Len(ds)])

AllDigits(s) == \A i \in 1..Len(s) : s[i] \in DigitSet

\* the thousandths a fraction's digits stand for (digits after the third dropped)
FractionValue(ds) ==
    DigitsValue(SubSeq(ds \o <<"0","0","0">>, 1, 3))

\* Number(str) on decimal literals, in thousandths: white space is trimmed,
\* the empty string is 0, anything that is no decimal literal is NaN
UnsignedNumber(t) ==
    LET parts == Split(t, <<".">>)
    IN IF Len(t) = 0 \/ t = <<".">> \/ Len(parts) > 2 THEN NaN
       ELSE IF ~AllDigits(parts[1]) THEN NaN
       ELSE IF Len(parts) = 1 THEN 1000 * DigitsValue(parts[1])
       ELSE IF ~AllDigits(parts[2]) THEN NaN
       ELSE 1000 * DigitsValue(parts[1]) + FractionValue(parts[2])

Number(str) ==
    LET t == Trim(str)
    IN IF Len(t) = 0 THEN 0
       ELSE IF t[1] = "-"
            THEN IF UnsignedNumber(Tail(t)) = NaN THEN NaN
                 ELSE 0 - UnsignedNumber(Tail(t))
            ELSE UnsignedNumber(t)

\* the longest run of digits at the start of s
RECURSIVE DigitPrefix(_)
DigitPrefix(s) ==
    IF Len(s) > 0 /\ s[1] \in DigitSet THEN <<s[1]>> \o DigitPrefix(Tail(s)) ELSE <<>>

\* parseInt(s, 10): leading white space skipped, an optional sign, then the
\* longest run of digits; NaN when there is none
parseInt10(s) ==
    LET t == TrimLeft(s)
        neg == Len(t) > 0 /\ t[1] = "-"
        u == IF neg THEN Tail(t) ELSE t
        ds == DigitPrefix(u)
    IN IF Len(ds) = 0 THEN NaN
       ELSE IF neg THEN 0 - DigitsValue(ds) ELSE DigitsValue(ds)

\* ------------------------------------------------------------------------
\* Escaping (src/src/pack.ts)
\* ------------------------------------------------------------------------

\* a variant that leaves the escape character itself unescaped
escapeCharNoBackslash(ch) ==
    IF ch = "|" THEN <<"\\", "|">>
    ELSE IF ch = ">" THEN <<"\\", ">">>
    ELSE IF ch = "\n" THEN <<"\\", "n">>
    ELSE <<ch>>

escapeChar(ch) ==
    IF ch = "|" THEN <<"\\", "|">>
    ELSE IF ch = ">" THEN <<"\\", ">">>
    ELSE IF ch = "\\" THEN <<"\\", "\\">>
    ELSE IF ch = "\n" THEN <<"\\", "n">>
    ELSE <<ch>>

RECURSIVE escapeLabel(_)
escapeLabel(label) ==
    IF Len(label) = 0 THEN <<>>
    ELSE escapeChar(label[1]) \o escapeLabel(Tail(label))

\* what unescapeLabel appends for a backslash followed by next
unescapePair(next) ==
    IF next \in {"|", ">", "\\"} THEN <<next>>
    ELSE IF next = "n" THEN <<"\n">>
    ELSE <<"\\", next>>

RECURSIVE unescapeFrom(_, _)
unescapeFrom(label, i) ==
    IF i >= Len(label) THEN <<>>
    ELSE IF label[i + 1] = "\\" /\ i + 1 < Len(label)
         THEN unescapePair(label[i + 2]) \o unescapeFrom(label, i + 2)
         ELSE <<label[i + 1]>> \o unescapeFrom(label, i + 1)

unescapeLabel(label) == unescapeFrom(label, 0)

\* ------------------------------------------------------------------------
\* Packing (src/src/pack.ts): TriePacker
\* ------------------------------------------------------------------------

createPackNode == [children |-> <<>>, entryIndices |-> <<>>]

\* a variant that keeps one TriePacker for all calls
reusedTriePacker(scorePrecision) ==
    IF packer = <<>>
    THEN [packerNodes |-> << [children |-> <<>>, entryIndices |-> <<>>] >>,
          precision |-> scorePrecision]
    ELSE packer[1]

\* new TriePacker(precision): the PackNode objects in creation order
\* (packerNodes[1] is TriePacker.root) and the precision
newTriePacker(scorePrecision) ==
    [packerNodes |-> <<createPackNode>>, precision |-> scorePrecision]

\* a variant that keeps only the last index at a node (last write wins)
pushEntryIndexReplace(pn, node, entryIndex) ==
    [pn EXCEPT ![node].entryIndices = <<entryIndex>>]

\* node.entryIndices.push(entryIndex) at the node where the text is exhausted
pushEntryIndex(pn, node, entryIndex) ==
    [pn EXCEPT ![node].entryIndices = Append(@, entryIndex)]

\* TriePacker.insertAt on the PackNode objects pn
RECURSIVE packerInsertAt(_, _, _, _, _)
packerInsertAt(pn, node, text, pos, entryIndex) ==
    IF pos >= Len(text)
    THEN pushEntryIndex(pn, node, entryIndex)
    ELSE
      LET ch == text[pos + 1]
          ei == MapIndex(pn[node].children, ch)
      IN
      IF ei = 0
      THEN Append([pn EXCEPT ![node].children =
                       MapSet(@, ch, SliceFrom(text, pos), Len(pn) + 1)],
                  [children |-> <<>>, entryIndices |-> <<entryIndex>>])
      ELSE
        LET edge == pn[node].children[ei]
            label == edge.label
            maxJ == Min(Len(label), Len(text) - pos)
            j == commonPrefix(label, text, pos, 0, maxJ)
        IN
        IF j = Len(label)
        THEN packerInsertAt(pn, edge.node, text, pos + j, entryIndex)
        ELSE
          LET splitNode == Len(pn) + 1
              newLeaf == Len(pn) + 2
              reattached ==
                  MapSet(<<>>, label[j + 1], SliceFrom(label, j), edge.node)
              parentSet ==
                  [pn EXCEPT ![node].children =
                       MapSet(@, ch, SliceTo(label, j), splitNode)]
          IN
          IF pos + j >= Len(text)
          THEN Append(parentSet,
                      [children |-> reattached, entryIndices |-> <<entryIndex>>])
          ELSE Append(Append(parentSet,
                             [children |->
                                  MapSet(reattached, text[pos + j + 1],
                                         SliceFrom(text, pos + j), newLeaf),
                              entryIndices |-> <<>>]),
                      [children |-> <<>>, entryIndices |-> <<entryIndex>>])

\* a variant that stores the text in its original casing
packerInsertKeepCase(pk, text, score, entryIndex) ==
    [pk EXCEPT !.packerNodes = packerInsertAt(@, 1, text, 0, entryIndex)]

\* TriePacker.insert: the key is always lower-cased
packerInsert(pk, text, score, entryIndex) ==
    [pk EXCEPT !.packerNodes =
         packerInsertAt(@, 1, ToLowerCase(text), 0, entryIndex)]

\* the loop of packTrie: packer.insert(entries[i].text, entries[i].score ?? 0, i)
RECURSIVE packerInsertAll(_, _, _)
packerInsertAll(pk, entries, i) ==
    IF i >= Len(entries) THEN pk
    ELSE packerInsertAll(packerInsert(pk, entries[i + 1].text, entries[i + 1].score, i),
                         entries, i + 1)

\* [...node.children.entries()].sort((a, b) => a[0].localeCompare(b[0]))
childSortInsert(sorted, x) ==
    LET k == Cardinality({i \in 1..Len(sorted) :
                              LocaleCompare(<<sorted[i].key>>, <<x.key>>) <= 0})
    IN SubSeq(sorted, 1, k) \o <<x>> \o SubSeq(sorted, k + 1, Len(sorted))

RECURSIVE sortChildrenFrom(_, _, _)
sortChildrenFrom(sorted, children, i) ==
    IF i > Len(children) THEN sorted
    ELSE sortChildrenFrom(childSortInsert(sorted, children[i]), children, i + 1)

\* a variant that leaves the children in the order of the Map
sortedChildrenUnsorted(children) == children

sortedChildren(children) == sortChildrenFrom(<<>>, children, 1)

\* a variant that numbers the nodes depth first
RECURSIVE bfsOrderDepthFirst(_, _, _)
bfsOrderDepthFirst(pn, queue, nodeOrder) ==
    IF Len(queue) = 0 THEN nodeOrder
    ELSE LET sc == sortedChildren(pn[Head(queue)].children)
         IN bfsOrderDepthFirst(pn,
                               [i \in 1..Len(sc) |-> sc[i].node] \o Tail(queue),
                               Append(nodeOrder, Head(queue)))

\* the breadth-first loop of pack: nodeOrder, from the queue
RECURSIVE bfsOrder(_, _, _)
bfsOrder(pn, queue, nodeOrder) ==
    IF Len(queue) = 0 THEN nodeOrder
    ELSE LET sc == sortedChildren(pn[Head(queue)].children)
         IN bfsOrder(pn,
                     Tail(queue) \o [i \in 1..Len(sc) |-> sc[i].node],
                     Append(nodeOrder, Head(queue)))

\* nodeIndexMap.get(node)
nodeIndex(nodeOrder, node) == IndexIn(nodeOrder, node) - 1

RECURSIVE childDescriptors(_, _, _)
childDescriptors(nodeOrder, sc, i) ==
    IF i > Len(sc) THEN <<>>
    ELSE <<"|">> \o escapeLabel(sc[i].label) \o <<">">>
             \o ToRadix(nodeIndex(nodeOrder, sc[i].node), 36)
             \o childDescriptors(nodeOrder, sc, i + 1)

\* the line pack writes for one node
nodeLine(pn, nodeOrder, node) ==
    (IF Len(pn[node].entryIndices) > 0
     THEN Join([i \in 1..Len(pn[node].entryIndices) |->
                    ToRadix(pn[node].entryIndices[i], 10)], <<",">>)
     ELSE <<"-">>)
        \o childDescriptors(nodeOrder, sortedChildren(pn[node].children), 1)

\* a variant header that declares version 2
headerLineV2 == <<"P","T","R","I","E",":","2",":","C","I">>

headerLine == <<"P","T","R","I","E",":","1",":","C","I">>

separatorLine == <<"-","-","-">>

\* a variant that writes no scores when every score is 0
scoreListOmitZeros(entries, scorePrecision) ==
    IF \A i \in 1..Len(entries) : entries[i].score = 0
    THEN <<>>
    ELSE [i \in 1..Len(entries) |-> ToFixed(entries[i].score, scorePrecision)]

\* entries.map((e) => (e.score ?? 0).toFixed(this.precision))
scoreList(entries, scorePrecision) ==
    [i \in 1..Len(entries) |-> ToFixed(entries[i].score, scorePrecision)]

\* TriePacker.pack
pack(pk, entries) ==
    LET texts == [i \in 1..Len(entries) |-> entries[i].text]
        scores == scoreList(entries, pk.precision)
        nodeOrder == bfsOrder(pk.packerNodes, <<1>>, <<>>)
        nodeLines == [i \in 1..Len(nodeOrder) |->
                          nodeLine(pk.packerNodes, nodeOrder, nodeOrder[i])]
        lines == <<headerLine>> \o texts \o <<separatorLine>>
                     \o <<Join(scores, <<",">>)>> \o <<separatorLine>> \o nodeLines
    IN Join(lines, <<"\n">>)

\* ------------------------------------------------------------------------
\* Unpacking (src/src/pack.ts): parse and unpackTrie
\* ------------------------------------------------------------------------

sectionSeparator == <<"\n","-","-","-","\n">>

magic == <<"P","T","R","I","E">>

\* a variant that also lets two sections through
wrongSectionCountTwoOrThree(sections) == Len(sections) \notin {2, 3}

\* sections.length !== 3
wrongSectionCount(sections) == Len(sections) # 3

\* a variant that compares the magic token without regard to case
badMagicIgnoreCase(headerParts) ==
    ToLowerCase(headerParts[1]) # <<"p","t","r","i","e">>

\* headerParts[0] !== 'PTRIE'
badMagic(headerParts) == headerParts[1] # magic

\* parseInt(headerParts[1], 10), NaN for a header with no second part
headerVersion(headerParts) ==
    IF Len(headerParts) >= 2 THEN parseInt10(headerParts[2]) ELSE NaN

\* version !== 1
unsupportedVersion(version) == version # 1

\* a variant that reads every header as case-sensitive
headerCaseSensitiveAlways(headerParts) == Len(headerParts) >= 1

\* headerParts[2] === 'CS'
headerCaseSensitive(headerParts) ==
    Len(headerParts) >= 3 /\ headerParts[3] = <<"C","S">>

\* the score list of section 2
parseScores(section) ==
    LET scoreStr == Trim(section)
    IN IF Len(scoreStr) > 0
       THEN LET parts == Split(scoreStr, <<",">>)
            IN [i \in 1..Len(parts) |-> Number(parts[i])]
       ELSE <<>>

\* a variant that builds an entry only for a text that has a score
buildEntriesScoredOnly(texts, scores) ==
    [i \in 1..Min(Len(texts), Len(scores)) |->
        [text |-> texts[i], score |-> scores[i]]]

\* the entries parse builds from the text lines and the scores, by position
buildEntries(texts, scores) ==
    [i \in 1..Len(texts) |->
        [text |-> texts[i],
         score |-> IF i - 1 < Len(scores) THEN scores[i] ELSE 0]]

\* splitUnescaped: the parts of str between unescaped delimiters, scanning
\* from position i with the part collected so far
RECURSIVE splitUnescapedFrom(_, _, _, _, _)
splitUnescapedFrom(str, delim, i, current, parts) ==
    IF i >= Len(str) THEN Append(parts, current)
    ELSE IF str[i + 1] = "\\" /\ i + 1 < Len(str)
         THEN splitUnescapedFrom(str, delim, i + 2,
                                 current \o <<str[i + 1], str[i + 2]>>, parts)
    ELSE IF str[i + 1] = delim
         THEN splitUnescapedFrom(str, delim, i + 1, <<>>, Append(parts, current))
    ELSE splitUnescapedFrom(str, delim, i + 1, Append(current, str[i + 1]), parts)

splitUnescaped(str, delim) == splitUnescapedFrom(str, delim, 0, <<>>, <<>>)

\* the first position of ch in str at or after i, escaped or not; -1 if none
RECURSIVE findAnyFrom(_, _, _)
findAnyFrom(str, ch, i) ==
    IF i >= Len(str) THEN -1
    ELSE IF str[i + 1] = ch THEN i
    ELSE findAnyFrom(str, ch, i + 1)

\* the loop of findUnescaped from position i
RECURSIVE findUnescapedFrom(_, _, _)
findUnescapedFrom(str, ch, i) ==
    IF i >= Len(str) THEN -1
    ELSE IF str[i + 1] = "\\" /\ i + 1 < Len(str)
         THEN findUnescapedFrom(str, ch, i + 2)
    ELSE IF str[i + 1] = ch THEN i
    ELSE findUnescapedFrom(str, ch, i + 1)

\* a variant that also finds an escaped occurrence
findEscapedToo(str, ch) == findAnyFrom(str, ch, 0)

\* findUnescaped: the position of the first unescaped ch, -1 if there is none
findUnescaped(str, ch) == findUnescapedFrom(str, ch, 0)

\* the value of a digit of base 36, upper or lower case
Digit36Value(c) == IndexIn(Base36Digits, ToLowerChar(c)) - 1

RECURSIVE Digit36Prefix(_)
Digit36Prefix(s) ==
    IF Len(s) > 0 /\ ToLowerChar(s[1]) \in Range36
    THEN <<s[1]>> \o Digit36Prefix(Tail(s)) ELSE <<>>

RECURSIVE Digits36Value(_)
Digits36Value(ds) ==
    IF Len(ds) = 0 THEN 0
    ELSE 36 * Digits36Value(SubSeq(ds, 1, Len(ds) - 1)) + Digit36Value(ds[Len(ds)])

\* parseInt(s, 36): leading white space skipped, an optional sign, then the
\* longest run of digits of base 36; NaN when there is none
parseInt36(s) ==
    LET t == TrimLeft(s)
        neg == Len(t) > 0 /\ t[1] = "-"
        u == IF neg \/ (Len(t) > 0 /\ t[1] = "+") THEN Tail(t) ELSE t
        ds == Digit36Prefix(u)
    IN IF Len(ds) = 0 THEN NaN
       ELSE IF neg THEN 0 - Digits36Value(ds) ELSE Digits36Value(ds)

\* the loop over segments[1..]: label>childIndex descriptors, a segment
\* without an unescaped '>' skipped
RECURSIVE parseChildren(_, _)
parseChildren(segments, i) ==
    IF i >= Len(segments) THEN <<>>
    ELSE LET seg == segments[i + 1]
             gtIdx == findUnescaped(seg, ">")
         IN IF gtIdx = -1 THEN parseChildren(segments, i + 1)
            ELSE << [label |-> unescapeLabel(SliceTo(seg, gtIdx)),
                     childIndex |-> parseInt36(SliceFrom(seg, gtIdx + 1))] >>
                     \o parseChildren(segments, i + 1)

\* the node record parse builds from one line of the node table; Number
\* counts in thousandths, so the entry index 1 reads 1000
parseNodeLine(line) ==
    LET segments == splitUnescaped(line, "|")
        entryPart == segments[1]
    IN [entryIndices |->
            IF entryPart # <<"-">>
            THEN LET parts == Split(entryPart, <<",">>)
                 IN [i \in 1..Len(parts) |-> Number(parts[i])]
            ELSE <<>>,
        children |-> parseChildren(segments, 1)]

\* sections[2].split('\n').filter((l) => l.length > 0), each line parsed
parseNodeLines(section) ==
    LET nodeLines == SelectSeq(Split(section, <<"\n">>), LAMBDA l : Len(l) > 0)
    IN [i \in 1..Len(nodeLines) |-> parseNodeLine(nodeLines[i])]

Thrown(message) ==
    [ok |-> FALSE, error |-> message, version |-> NaN, caseSensitive |-> FALSE,
     entries |-> <<>>, nodeTable |-> <<>>]

\* parse: the ParsedTrie, or the error thrown
parse(text) ==
    LET sections == Split(text, sectionSeparator)
        headerLines == Split(sections[1], <<"\n">>)
        headerParts == Split(headerLines[1], <<":">>)
        version == headerVersion(headerParts)
    IN IF wrongSectionCount(sections) THEN Thrown("sections")
       ELSE IF badMagic(headerParts) THEN Thrown("magic")
       ELSE IF unsupportedVersion(version) THEN Thrown("version")
       ELSE [ok |-> TRUE, error |-> "", version |-> version,
             caseSensitive |-> headerCaseSensitive(headerParts),
             entries |-> buildEntries(Tail(headerLines), parseScores(sections[2])),
             nodeTable |-> parseNodeLines(sections[3])]

\* the loop of unpackTrie: trie.insert(entry.text, entry.score), no data
RECURSIVE insertAll(_, _, _)
insertAll(t, entries, i) ==
    IF i > Len(entries) THEN t
    ELSE insertAll(insert(t, entries[i].text, entries[i].score, "undefined"),
                   entries, i + 1)

\* unpackTrie: the RadixTrie returned, or the error parse throws
unpackTrie(text) ==
    LET parsed == parse(text)
    IN IF parsed.ok
       THEN [ok |-> TRUE, error |-> "",
             trie |-> insertAll(newRadixTrie(parsed.caseSensitive), parsed.entries, 1)]
       ELSE [ok |-> FALSE, error |-> parsed.error, trie |-> newRadixTrie(FALSE)]

\* packTrie: the TriePacker it builds and the string it returns
packTrie(entries, scorePrecision) ==
    LET pk == packerInsertAll(newTriePacker(scorePrecision), entries, 0)
    IN [packer |-> pk, packed |-> pack(pk, entries)]

\* RadixTrie.fromEntries for entries without data
fromEntries(entries, cs) == insertAll(newRadixTrie(cs), entries, 1)

\* ------------------------------------------------------------------------
\* AutocompleteTrie (src/unnamed/part_000): one node per character
\* ------------------------------------------------------------------------

\* createNode(): the children map (key, node, in insertion order) and entries
createNode == [children |-> <<>>, entries |-> <<>>]

\* new AutocompleteTrie(options): the TrieNode objects in creation order,
\* acNodes[1] is the root
newAutocompleteTrie(cs) ==
    [caseSensitive |-> cs, acNodes |-> <<createNode>>, size |-> 0]

\* a variant that never folds case
acNormalizeKeepCase(cs, text) == text

\* AutocompleteTrie.normalize
acNormalize(cs, text) == IF cs THEN text ELSE ToLowerCase(text)

\* the loop of insert over the characters from position i: the nodes, with
\* the missing ones created, and the node reached
RECURSIVE acDescend(_, _, _, _)
acDescend(ns, node, normalized, i) ==
    IF i >= Len(normalized) THEN [acNodes |-> ns, node |-> node]
    ELSE LET char == normalized[i + 1]
             ci == MapIndex(ns[node].children, char)
         IN IF ci = 0
            THEN acDescend(Append([ns EXCEPT ![node].children =
                                       Append(@, [key |-> char, node |-> Len(ns) + 1])],
                                  createNode),
                           Len(ns) + 1, normalized, i + 1)
            ELSE acDescend(ns, ns[node].children[ci].node, normalized, i + 1)

\* AutocompleteTrie.insert
acInsert(t, text, score, data) ==
    LET entry == [text |-> text, score |-> score, data |-> data]
        r == acDescend(t.acNodes, 1, acNormalize(t.caseSensitive, text), 0)
    IN [t EXCEPT !.acNodes = [r.acNodes EXCEPT ![r.node].entries = Append(@, entry)],
                 !.size = @ + 1]

\* the loop of search over the characters: the node reached, 0 if a
\* character has no child
RECURSIVE acFind(_, _, _, _)
acFind(ns, node, normalized, i) ==
    IF i >= Len(normalized) THEN node
    ELSE LET ci == MapIndex(ns[node].children, normalized[i + 1])
         IN IF ci = 0 THEN 0
            ELSE acFind(ns, ns[node].children[ci].node, normalized, i + 1)

\* collect(n): the entries of the subtree, a node before its children
RECURSIVE acCollect(_, _)
RECURSIVE acCollectChildren(_, _, _)
acCollectChildren(ns, children, i) ==
    IF i > Len(children) THEN <<>>
    ELSE acCollect(ns, children[i].node) \o acCollectChildren(ns, children, i + 1)

acCollect(ns, node) ==
    ns[node].entries \o acCollectChildren(ns, ns[node].children, 1)

\* AutocompleteTrie.search; its comparator and slice read as RadixTrie's
acSearch(t, prefix, limit) ==
    LET node == acFind(t.acNodes, 1, acNormalize(t.caseSensitive, prefix), 0)
    IN IF node = 0 THEN <<>>
       ELSE sliceLimit(sortResults(acCollect(t.acNodes, node)), limit)

\* the same insert calls applied to an AutocompleteTrie
RECURSIVE acInsertAll(_, _, _)
acInsertAll(t, entries, i) ==
    IF i > Len(entries) THEN t
    ELSE acInsertAll(acInsert(t, entries[i].text, entries[i].score, entries[i].data),
                     entries, i + 1)

\* ------------------------------------------------------------------------
\* Inputs of the RadixTrie specification
\* ------------------------------------------------------------------------

MaxInserts == 3

\* the entries insert is called with: text and score (in thousandths)
EntryPool ==
    { [text |-> <<>>, score |-> 0],
      [text |-> <<"c","a">>, score |-> 500],
      [text |-> <<"c","a","r">>, score |-> 900],
      [text |-> <<"C","a","r">>, score |-> 900],
      [text |-> <<"c","a","r">>, score |-> 500],
      [text |-> <<"c","a","r","d">>, score |-> 800],
      [text |-> <<"c","a","r","t">>, score |-> 800],
      [text |-> <<"c","a","t">>, score |-> 500],
      [text |-> <<"N","e","w"," ","Y","o","r","k">>, score |-> 900],
      [text |-> <<"n","e","w","t">>, score |-> 0] }

\* the prefixes search is called with
PrefixPool ==
    { <<>>, <<"c">>, <<"c","a">>, <<"C","A">>, <<"c","a","r">>, <<"c","a","r","s">>,
      <<"c","a","r","d">>, <<"c","a","r","d","s">>, <<"c","a","t">>, <<"c","o">>,
      <<"n","e","w"," ","y">>, <<"x">> }

\* the limits search is called with
LimitPool == {0, 1, 2, 10}

\* ------------------------------------------------------------------------
\* The RadixTrie specification: a trie built by a sequence of inserts
\* ------------------------------------------------------------------------

theTrie ==
    [caseSensitive |-> caseSensitive, nodes |-> nodes, size |-> size,
     nodeCount |-> nodeCount]

\* no packTrie or unpackTrie call has been made
CodecIdle ==
    /\ entriesIn = <<>>
    /\ precision = 2
    /\ packer = <<>>
    /\ packed = <<>>
    /\ outputs = {}
    /\ calls = <<>>
    /\ unpackResult = [status |-> "none", error |-> ""]
    /\ parsedNodes = <<>>

\* no label has been escaped
EscapeIdle ==
    /\ labelIn = <<>>
    /\ escaped = <<>>
    /\ unescaped = <<>>

\* createTrieHandler has not been called
HandlerIdle ==
    /\ handler = <<>>
    /\ cached = <<>>
    /\ responses = <<>>

\* no TrieAutocomplete is mounted
UiIdle ==
    /\ props = <<>>
    /\ inputValue = <<>>
    /\ isOpen = FALSE
    /\ highlightIndex = -1
    /\ suggestions = <<>>
    /\ blurTimers = 0
    /\ onChangeCalls = <<>>
    /\ onSelectCalls = <<>>
    /\ lastEvent = [type |-> "none", key |-> "", index |-> 0, value |-> <<>>]
    /\ fetchedTrie = <<>>
    /\ isLoading = FALSE
    /\ fetches = <<>>
    /\ mounted = FALSE
    /\ onLoadCalls = <<>>
    /\ packedTrie = <<>>

Init ==
    /\ caseSensitive \in BOOLEAN
    /\ nodes = newRadixTrie(caseSensitive).nodes
    /\ size = 0
    /\ nodeCount = 1
    /\ inserted = <<>>
    /\ searched = <<>>
    /\ CodecIdle
    /\ EscapeIdle
    /\ HandlerIdle
    /\ UiIdle

\* trie.insert(e.text, e.score, data); the payload is the call's number
Insert ==
    /\ Len(inserted) < MaxInserts
    /\ \E e \in EntryPool :
         LET data == Len(inserted) + 1
             t == insert(theTrie, e.text, e.score, data)
         IN /\ nodes' = t.nodes
            /\ size' = t.size
            /\ nodeCount' = t.nodeCount
            /\ inserted' = Append(inserted,
                                  [text |-> e.text, score |-> e.score, data |-> data])
    /\ UNCHANGED <<caseSensitive, searched>>
    /\ UNCHANGED packVars
    /\ UNCHANGED escapeVars
    /\ UNCHANGED handlerVars
    /\ UNCHANGED uiVars

Next == Insert

Spec == Init /\ [][Next]_vars

\* ------------------------------------------------------------------------
\* Inputs of the codec specifications
\* ------------------------------------------------------------------------

MaxEntries == 2

MaxCalls == 3

\* the entries packTrie is called with: text and score (in thousandths)
PackPool ==
    { [text |-> <<"a","b">>, score |-> 900],
      [text |-> <<"a">>, score |-> 904],
      [text |-> <<"A","b">>, score |-> 125],
      [text |-> <<"b","|">>, score |-> 0],
      [text |-> <<"a","\n","b">>, score |-> 0],
      [text |-> <<"-","-","-">>, score |-> 500] }

PrecisionPool == {0, 2}

RECURSIVE SeqsUpTo(_, _)
SeqsUpTo(S, n) ==
    IF n = 0 THEN {<<>>}
    ELSE SeqsUpTo(S, n - 1)
             \cup {Append(q, x) : q \in {r \in SeqsUpTo(S, n - 1) : Len(r) = n - 1}, x \in S}

EntryLists == SeqsUpTo(PackPool, MaxEntries)

\* ------------------------------------------------------------------------
\* The search specification: search calls on a trie built by fromEntries
\* ------------------------------------------------------------------------

MaxSearchEntries == 3

\* the entries the searched trie is built from
SearchEntryPool ==
    { [text |-> <<>>, score |-> 0],
      [text |-> <<"c","a","r">>, score |-> 900],
      [text |-> <<"C","a","r">>, score |-> 900],
      [text |-> <<"c","a","r">>, score |-> 500],
      [text |-> <<"c","a","r","d">>, score |-> 800],
      [text |-> <<"c","a","t">>, score |-> 500] }

\* the prefixes and limits of the search calls
SearchPrefixPool == { <<>>, <<"c","a","r">>, <<"C","A">>, <<"x">> }
SearchLimitPool == {1, 10}

\* trie = RadixTrie.fromEntries(entries, {caseSensitive})
InitSearch ==
    /\ caseSensitive \in BOOLEAN
    /\ \E entries \in SeqsUpTo(SearchEntryPool, MaxSearchEntries) :
         LET t == fromEntries(entries, caseSensitive)
         IN /\ nodes = t.nodes
            /\ size = t.size
            /\ nodeCount = t.nodeCount
            /\ inserted = [i \in 1..Len(entries) |->
                              [text |-> entries[i].text, score |-> entries[i].score,
                               data |-> "undefined"]]
    /\ searched = <<>>
    /\ CodecIdle
    /\ EscapeIdle
    /\ HandlerIdle
    /\ UiIdle

\* results = trie.search(prefix, limit)
Search ==
    /\ \E prefix \in SearchPrefixPool, limit \in SearchLimitPool :
         LET t == afterSearch(theTrie, prefix, limit)
         IN /\ nodes' = t.nodes
            /\ size' = t.size
            /\ nodeCount' = t.nodeCount
            /\ searched' = <<[prefix |-> prefix, limit |-> limit,
                              results |-> search(caseSensitive, nodes, prefix, limit)]>>
    /\ UNCHANGED <<caseSensitive, inserted>>
    /\ UNCHANGED packVars
    /\ UNCHANGED escapeVars
    /\ UNCHANGED handlerVars
    /\ UNCHANGED uiVars

NextSearch == Search

SpecSearch == InitSearch /\ [][NextSearch]_vars

\* ------------------------------------------------------------------------
\* The codec specification: a caller packs its entry list and unpacks the text
\* ------------------------------------------------------------------------

\* no RadixTrie has been returned
NoTrie ==
    /\ caseSensitive = FALSE
    /\ nodes = <<>>
    /\ size = 0
    /\ nodeCount = 0
    /\ inserted = <<>>
    /\ searched = <<>>

InitPack ==
    /\ NoTrie
    /\ entriesIn \in EntryLists
    /\ precision \in PrecisionPool
    /\ packer = <<>>
    /\ packed = <<>>
    /\ outputs = {}
    /\ calls = <<>>
    /\ unpackResult = [status |-> "none", error |-> ""]
    /\ parsedNodes = <<>>
    /\ EscapeIdle
    /\ HandlerIdle
    /\ UiIdle

\* packed = packTrie(entriesIn, { scorePrecision: precision })
PackTrie ==
    /\ Len(calls) < MaxCalls
    /\ LET r == packTrie(entriesIn, precision)
       IN /\ packer' = <<r.packer>>
          /\ packed' = <<r.packed>>
          /\ outputs' = outputs \cup {r.packed}
    /\ calls' = Append(calls, "packTrie")
    /\ UNCHANGED <<entriesIn, precision, unpackResult, parsedNodes>>
    /\ UNCHANGED trieVars
    /\ UNCHANGED escapeVars
    /\ UNCHANGED handlerVars
    /\ UNCHANGED uiVars

\* trie = unpackTrie(packed): the trie returned, or none when parse throws
UnpackTrie ==
    /\ Len(calls) < MaxCalls
    /\ packed # <<>>
    /\ LET r == unpackTrie(packed[1])
       IN IF r.ok
          THEN /\ caseSensitive' = r.trie.caseSensitive
               /\ nodes' = r.trie.nodes
               /\ size' = r.trie.size
               /\ nodeCount' = r.trie.nodeCount
               /\ inserted' = [i \in 1..Len(parse(packed[1]).entries) |->
                                  [text |-> parse(packed[1]).entries[i].text,
                                   score |-> parse(packed[1]).entries[i].score,
                                   data |-> "undefined"]]
               /\ unpackResult' = [status |-> "ok", error |-> ""]
               /\ parsedNodes' = parse(packed[1]).nodeTable
          ELSE /\ caseSensitive' = FALSE
               /\ nodes' = <<>>
               /\ size' = 0
               /\ nodeCount' = 0
               /\ inserted' = <<>>
               /\ unpackResult' = [status |-> "error", error |-> r.error]
               /\ parsedNodes' = <<>>
    /\ calls' = Append(calls, "unpackTrie")
    /\ UNCHANGED <<entriesIn, precision, packer, packed, outputs, searched>>
    /\ UNCHANGED escapeVars
    /\ UNCHANGED handlerVars
    /\ UNCHANGED uiVars

NextPack == PackTrie \/ UnpackTrie

SpecPack == InitPack /\ [][NextPack]_vars

\* ------------------------------------------------------------------------
\* The node-table specification: the codec on entry lists whose packing trie
\* branches below the root
\* ------------------------------------------------------------------------

MaxTreeEntries == 3

TreePool ==
    { [text |-> <<"a">>, score |-> 904],
      [text |-> <<"A","b">>, score |-> 125],
      [text |-> <<"a","c">>, score |-> 900],
      [text |-> <<"b","|">>, score |-> 0] }

InitPackTree ==
    /\ NoTrie
    /\ entriesIn \in SeqsUpTo(TreePool, MaxTreeEntries)
    /\ precision = 2
    /\ packer = <<>>
    /\ packed = <<>>
    /\ outputs = {}
    /\ calls = <<>>
    /\ unpackResult = [status |-> "none", error |-> ""]
    /\ parsedNodes = <<>>
    /\ EscapeIdle
    /\ HandlerIdle
    /\ UiIdle

SpecPackTree == InitPackTree /\ [][NextPack]_vars

\* ------------------------------------------------------------------------
\* The parser specification: unpackTrie on the documents a transport delivers
\* ------------------------------------------------------------------------

Headers ==
    { <<"P","T","R","I","E",":","1",":","C","I">>,
      <<"P","T","R","I","E",":","1",":","C","S">>,
      <<"P","T","R","I","E",":","2",":","C","I">>,
      <<"P","T","R","I","E",":","3",":","C","I">>,
      <<"P","T","R","I","E",":","1","x",":","C","I">>,
      <<"P","T","R","I","E",":","x",":","C","I">>,
      <<"P","T","R","I","E">>,
      <<"P","T","R","I","E",":","1">>,
      <<"X","T","R","I","E",":","1",":","C","I">>,
      <<"p","t","r","i","e",":","1",":","C","I">> }

TextLines ==
    { <<>>,
      << <<"c","a","r">> >>,
      << <<"c","a","r">>, <<"C","a","t">> >> }

ScoreLines ==
    { <<>>,
      <<"0",".","9","0">>,
      <<"0",".","9","0",",","0",".","5","0">> }

\* the node table of version 1 for the single text "car"
NodeTableV1 == <<"-","|","c","a","r",">","1","\n","0">>

\* a node table in the shape of version 2: a marker, then child descriptors
NodeTableV2 == <<"-","|","c","a","r",">","1","\n","*">>

\* a child descriptor as written, whether it has an unescaped '>', and the
\* label and child index it stands for
Descriptor(text, wellFormed, label, childIndex) ==
    [text |-> text, wellFormed |-> wellFormed, label |-> label,
     childIndex |-> childIndex]

\* a node-table line: the entry part as written, the entry indices it stands
\* for, and its child descriptors
TableLine(entryPart, indices, descs) ==
    [entryPart |-> entryPart, indices |-> indices, descs |-> descs]

\* node tables as lists of lines, some with descriptors that lack the '>'
NodeTableShapes ==
    { << TableLine(<<"-">>, <<>>,
                   << Descriptor(<<"c","a","r",">","1">>, TRUE, <<"c","a","r">>, 1) >>),
         TableLine(<<"0">>, <<0>>, <<>>) >>,
      << TableLine(<<"-">>, <<>>,
                   << Descriptor(<<"c","a","r",">","1">>, TRUE, <<"c","a","r">>, 1),
                      Descriptor(<<"z","z">>, FALSE, <<>>, 0) >>),
         TableLine(<<"0">>, <<0>>, <<>>) >>,
      << TableLine(<<"-">>, <<>>,
                   << Descriptor(<<"x","\\",">","y">>, FALSE, <<>>, 0),
                      Descriptor(<<"c","a","r",">","1">>, TRUE, <<"c","a","r">>, 1) >>),
         TableLine(<<"0">>, <<0>>, <<>>) >>,
      << TableLine(<<"-">>, <<>>,
                   << Descriptor(<<"a","\\","|","b",">","1">>, TRUE, <<"a","|","b">>, 1),
                      Descriptor(<<>>, FALSE, <<>>, 0),
                      Descriptor(<<"c",">","z">>, TRUE, <<"c">>, 35) >>),
         TableLine(<<"0",",","1">>, <<0, 1>>,
                   << Descriptor(<<"\\">>, FALSE, <<>>, 0) >>),
         TableLine(<<"-">>, <<>>, <<>>) >>,
      << >> }

RECURSIVE RenderDescriptors(_, _)
RenderDescriptors(descs, keepMalformed) ==
    IF descs = <<>> THEN <<>>
    ELSE (IF Head(descs).wellFormed \/ keepMalformed
          THEN <<"|">> \o Head(descs).text ELSE <<>>)
             \o RenderDescriptors(Tail(descs), keepMalformed)

\* the text of a node table, with or without its malformed descriptors
RenderTable(shape, keepMalformed) ==
    Join([i \in 1..Len(shape) |->
              shape[i].entryPart \o RenderDescriptors(shape[i].descs, keepMalformed)],
         <<"\n">>)

NodeTables == {RenderTable(t, k) : t \in NodeTableShapes, k \in BOOLEAN}

\* documents of one to four sections
DocPool ==
    LET firstSections == {Join(<<h>> \o t, <<"\n">>) : h \in Headers, t \in TextLines}
    IN firstSections
       \cup {Join(<<f, NodeTableV2>>, sectionSeparator) : f \in firstSections}
       \cup {Join(<<h \o <<"\n">> \o sc, NodeTableV2>>, sectionSeparator) :
                 h \in Headers, sc \in ScoreLines \ {<<>>}}
       \cup {Join(<<f, sc, nt>>, sectionSeparator) :
                 f \in firstSections, sc \in ScoreLines, nt \in NodeTables}
       \cup {Join(<<f, sc, NodeTableV1, NodeTableV1>>, sectionSeparator) :
                 f \in firstSections, sc \in ScoreLines}

InitParse ==
    /\ NoTrie
    /\ entriesIn = <<>>
    /\ precision = 2
    /\ packer = <<>>
    /\ packed \in {<<d>> : d \in DocPool}
    /\ outputs = {}
    /\ calls = <<>>
    /\ unpackResult = [status |-> "none", error |-> ""]
    /\ parsedNodes = <<>>
    /\ EscapeIdle
    /\ HandlerIdle
    /\ UiIdle

NextParse == UnpackTrie

SpecParse == InitParse /\ [][NextParse]_vars

\* ------------------------------------------------------------------------
\* The escaping specification: a label escaped, then unescaped
\* ------------------------------------------------------------------------

MaxLabelLen == 3

\* the field separator, the child-index separator, the escape character,
\* newline, the letter the newline escape uses, and a plain letter
LabelChars == {"|", ">", "\\", "\n", "n", "a"}

Labels == SeqsUpTo(LabelChars, MaxLabelLen)

InitEscape ==
    /\ NoTrie
    /\ CodecIdle
    /\ labelIn \in Labels
    /\ escaped = <<>>
    /\ unescaped = <<>>
    /\ HandlerIdle
    /\ UiIdle

EscapeLabel ==
    /\ escaped' = <<escapeLabel(labelIn)>>
    /\ UNCHANGED <<labelIn, unescaped>>
    /\ UNCHANGED trieVars
    /\ UNCHANGED packVars
    /\ UNCHANGED handlerVars
    /\ UNCHANGED uiVars

UnescapeLabel ==
    /\ escaped # <<>>
    /\ unescaped' = <<unescapeLabel(escaped[1])>>
    /\ UNCHANGED <<labelIn, escaped>>
    /\ UNCHANGED trieVars
    /\ UNCHANGED packVars
    /\ UNCHANGED handlerVars
    /\ UNCHANGED uiVars

NextEscape == EscapeLabel \/ UnescapeLabel

SpecEscape == InitEscape /\ [][NextEscape]_vars

\* ------------------------------------------------------------------------
\* createTrieHandler (src/src/pack.ts): the request handler and its cache
\* ------------------------------------------------------------------------

MaxRequests == 3

\* an item of the data array: a string, or an entry with text and score
StringItem(text) == [isString |-> TRUE, text |-> text, score |-> 0]
EntryItem(text, score) == [isString |-> FALSE, text |-> text, score |-> score]

\* the data createTrieHandler is called with
DataPool ==
    { [isArray |-> FALSE, items |-> <<>>],
      [isArray |-> TRUE, items |-> <<>>],
      [isArray |-> TRUE, items |-> << StringItem(<<"a","b">>) >>],
      [isArray |-> TRUE, items |-> << EntryItem(<<"a","b">>, 900) >>],
      [isArray |-> TRUE, items |-> << StringItem(<<"a">>), EntryItem(<<"A","b">>, 125) >>] }

\* the options createTrieHandler is called with: scorePrecision <<>> when
\* left out, cacheControl "undefined" when left out and "null" for null
OptionsPool ==
    [scorePrecision : {<<>>, <<0>>},
     cacheControl : {"undefined", "null", "no-store"},
     headers : { {}, {<<"X-Trie", "1">>}, {<<"Content-Type", "text/x-trie">>} }]

\* the response objects a framework passes: with writeHead, with setHeader
\* and a statusCode, with setHeader only, with end only
ResKinds == {"writeHead", "setHeader+statusCode", "setHeader", "end"}

\* data.map((item) => (typeof item === 'string' ? { text: item } : item)),
\* [] when data is no array; a missing score is packed as 0
handlerEntries(data) ==
    IF data.isArray
    THEN [i \in 1..Len(data.items) |->
             [text |-> data.items[i].text,
              score |-> IF data.items[i].isString THEN 0 ELSE data.items[i].score]]
    ELSE <<>>

\* options?.scorePrecision ?? 2
scorePrecisionOf(options) ==
    IF options.scorePrecision = <<>> THEN 2 ELSE options.scorePrecision[1]

\* options?.cacheControl !== undefined ? options.cacheControl : 'public, max-age=3600'
cacheControlOf(options) ==
    IF options.cacheControl # "undefined"
    THEN options.cacheControl
    ELSE "public, max-age=3600"

\* { ...a, ...b }: the pairs of b, and those of a under other names
Spread(a, b) == {h \in a : \A g \in b : g[1] # h[1]} \cup b

\* the headers object the handler builds
responseHeaders(h) ==
    LET headers == Spread({<<"Content-Type", "text/plain; charset=utf-8">>},
                          h.extraHeaders)
    IN IF h.cacheControl # "null"
       THEN Spread(headers, {<<"Cache-Control", h.cacheControl>>})
       ELSE headers

\* a variant that packs on every request
notCachedEver(c) == TRUE

\* !cached: null, or the empty string
notCached(c) == c = <<>> \/ c[1] = <<>>

\* what the response object has received when the handler returns
sentResponse(kind, headers, body) ==
    [headers |-> IF kind \in {"writeHead", "setHeader+statusCode", "setHeader"}
                 THEN headers ELSE {},
     statusCode |-> IF kind \in {"writeHead", "setHeader+statusCode"}
                    THEN 200 ELSE 0,
     body |-> body]

\* no RadixTrie, no codec call, no label: the server process at start
InitHandler ==
    /\ NoTrie
    /\ CodecIdle
    /\ EscapeIdle
    /\ HandlerIdle
    /\ UiIdle

\* handler = createTrieHandler(data, options)
CreateTrieHandler ==
    /\ handler = <<>>
    /\ \E data \in DataPool : \E options \in OptionsPool :
           handler' = << [entries |-> handlerEntries(data),
                          scorePrecision |-> scorePrecisionOf(options),
                          cacheControl |-> cacheControlOf(options),
                          extraHeaders |-> options.headers] >>
    /\ cached' = <<>>
    /\ UNCHANGED responses
    /\ UNCHANGED trieVars
    /\ UNCHANGED packVars
    /\ UNCHANGED escapeVars
    /\ UNCHANGED uiVars

\* handler(req, res): packs when nothing is cached, then answers
HandleRequest ==
    /\ handler # <<>>
    /\ Len(responses) < MaxRequests
    /\ \E kind \in ResKinds :
           LET h == handler[1]
               r == packTrie(h.entries, h.scorePrecision)
               body == IF notCached(cached) THEN r.packed ELSE cached[1]
           IN /\ cached' = <<body>>
              /\ IF notCached(cached)
                 THEN /\ calls' = Append(calls, "packTrie")
                      /\ packer' = <<r.packer>>
                      /\ outputs' = outputs \cup {r.packed}
                 ELSE UNCHANGED <<calls, packer, outputs>>
              /\ responses' = Append(responses,
                                     sentResponse(kind, responseHeaders(h), body))
    /\ UNCHANGED handler
    /\ UNCHANGED <<entriesIn, precision, packed, unpackResult, parsedNodes>>
    /\ UNCHANGED trieVars
    /\ UNCHANGED escapeVars
    /\ UNCHANGED uiVars

NextHandler == CreateTrieHandler \/ HandleRequest

SpecHandler == InitHandler /\ [][NextHandler]_vars

\* ------------------------------------------------------------------------
\* TrieAutocomplete (src/src/Autocomplete.tsx): the input and its dropdown
\* ------------------------------------------------------------------------

MaxTimers == 2

\* the entries prop
UiEntries ==
    << [text |-> <<"c","a","t">>, score |-> 500, data |-> "undefined"],
       [text |-> <<"c","a","r">>, score |-> 900, data |-> "undefined"],
       [text |-> <<"c","a","r","d">>, score |-> 800, data |-> "undefined"] >>

\* the props the component is rendered with: parent "none" when the value
\* prop is left out (uncontrolled; value is then defaultValue), "echo" for a
\* parent that renders the value onChange reports, "fixed" for a parent that
\* keeps its value
PropsPool ==
    [entries : {UiEntries},
     minChars : {1, 2},
     maxSuggestions : {2, 8},
     parent : {"none", "echo", "fixed"},
     value : {<<>>, <<"c","a">>},
     given : {{"entries"}},
     src : {""},
     packed : {<<>>},
     trie : {<<>>},
     items : {<<>>},
     loading : {FALSE}]

\* the values the user edits the input to
TypedValues == {<<>>, <<"c">>, <<"c","a">>, <<"c","a","r">>, <<"x">>}

Keys == {"ArrowDown", "ArrowUp", "Enter", "Escape", "Tab"}

MaxFetches == 2

cab == <<"c","a","b">>
cad == <<"c","a","d">>
cam == <<"c","a","m">>
can == <<"c","a","n">>
cap == <<"c","a","p">>

\* the URLs the parent passes as src; "" is a src left out
SrcPool == {"", "A", "B"}

\* the text packTrie writes for one entry of a lower-case text
PackedOne(text, score) ==
    headerLine \o <<"\n">> \o text \o <<"\n">> \o separatorLine \o <<"\n">>
        \o score \o <<"\n">> \o separatorLine \o <<"\n">>
        \o <<"-","|">> \o text \o <<">","1","\n","0">>

\* the packed texts the server holds at the URLs A and B
BodyA == PackedOne(cab, <<"0",".","7","0">>)
BodyB == PackedOne(cad, <<"0",".","6","0">>)

BodyAt(url) == IF url = "A" THEN BodyA ELSE BodyB

\* a response text that is not a packed trie
BadBody == <<"n","o","p","e">>

\* how a fetch settles: the response text arrives, the text is not a packed
\* trie, the status is not ok, the request fails
Outcomes == {"text", "badtext", "http", "network"}

\* the packed prop
PackedProp == PackedOne(cap, <<"0",".","4","0">>)

\* the trie prop
TrieProp ==
    fromEntries(<< [text |-> can, score |-> 300, data |-> "undefined"] >>, FALSE)

\* unpackTrie on the texts the component meets, computed once per text
UnpackedTexts ==
    [text \in {BodyA, BodyB, BadBody, PackedProp} |-> unpackTrie(text)]

unpackTrieOf(text) == UnpackedTexts[text]

\* the packedTrie memo: unpackTrie(packed), null when the prop is empty
packedTrieMemo(p) ==
    IF p.packed = <<>> THEN <<>> ELSE <<unpackTrieOf(p.packed).trie>>

\* AutocompleteTrie.fromStrings(items): every string with score 0
fromStrings(items) ==
    acInsertAll(newAutocompleteTrie(FALSE),
                [i \in 1..Len(items) |->
                     [text |-> items[i], score |-> 0, data |-> "undefined"]], 1)

\* the trie memo: fetchedTrie, packedTrie, the trie prop, the entries prop,
\* the items prop, in this order, else an empty AutocompleteTrie; a prop is in
\* p.given when the parent passes it
uiTrie(p, fetched, memo) ==
    IF fetched # <<>> THEN [kind |-> "radix", trie |-> fetched[1].trie]
    ELSE IF memo # <<>> THEN [kind |-> "radix", trie |-> memo[1]]
    ELSE IF "trie" \in p.given THEN [kind |-> "radix", trie |-> p.trie[1]]
    ELSE IF "entries" \in p.given
    THEN [kind |-> "ac", trie |-> acInsertAll(newAutocompleteTrie(FALSE), p.entries, 1)]
    ELSE IF "items" \in p.given THEN [kind |-> "ac", trie |-> fromStrings(p.items)]
    ELSE [kind |-> "ac", trie |-> newAutocompleteTrie(FALSE)]

\* trie.search(inputValue, maxSuggestions) on the Searchable in use
trieSearch(picked, prefix, limit) ==
    IF picked.kind = "radix"
    THEN search(picked.trie.caseSensitive, picked.trie.nodes, prefix, limit)
    ELSE acSearch(picked.trie, prefix, limit)

\* isControlled
isControlled(p) == p.parent # "none"

\* the input value after onChange(val): setInternalValue(val) when
\* uncontrolled, the value prop of the next render when controlled
valueAfterChange(p, current, val) ==
    IF ~isControlled(p) THEN val
    ELSE IF p.parent = "echo" THEN val
    ELSE current

\* the effect on [inputValue, trie, maxSuggestions, minChars], run after a
\* render in which inputValue or the trie differs from that of the render
\* before; the trie changes with fetchedTrie, the props being kept
suggestionsEffect(p, before, after) ==
    IF after.inputValue = before.inputValue /\ after.fetchedTrie = before.fetchedTrie
    THEN after
    ELSE IF Len(after.inputValue) >= p.minChars
         THEN [after EXCEPT
                   !.suggestions = trieSearch(uiTrie(p, after.fetchedTrie, packedTrie),
                                              after.inputValue, p.maxSuggestions),
                   !.highlightIndex = -1]
         ELSE [after EXCEPT !.suggestions = <<>>]

\* handleChange
handleChange(p, u, val) ==
    [u EXCEPT !.inputValue = valueAfterChange(p, u.inputValue, val),
              !.onChangeCalls = <<val>>,
              !.isOpen = TRUE]

\* selectEntry
selectEntry(p, u, entry) ==
    [u EXCEPT !.inputValue = valueAfterChange(p, u.inputValue, entry.text),
              !.onChangeCalls = <<entry.text>>,
              !.onSelectCalls = <<entry>>,
              !.isOpen = FALSE,
              !.highlightIndex = -1]

\* a variant of ArrowDown that stops at the last suggestion
arrowDownNoWrap(prev, length) == IF prev < length - 1 THEN prev + 1 ELSE prev

\* (prev) => prev < suggestions.length - 1 ? prev + 1 : 0
arrowDown(prev, length) == IF prev < length - 1 THEN prev + 1 ELSE 0

\* (prev) => prev > 0 ? prev - 1 : suggestions.length - 1
arrowUp(prev, length) == IF prev > 0 THEN prev - 1 ELSE length - 1

\* handleKeyDown
handleKeyDown(p, u, key) ==
    IF ~u.isOpen \/ Len(u.suggestions) = 0
    THEN IF key = "ArrowDown" /\ Len(u.suggestions) > 0
         THEN [u EXCEPT !.isOpen = TRUE]
         ELSE u
    ELSE CASE key = "ArrowDown" ->
                  [u EXCEPT !.highlightIndex = arrowDown(@, Len(u.suggestions))]
           [] key = "ArrowUp" ->
                  [u EXCEPT !.highlightIndex = arrowUp(@, Len(u.suggestions))]
           [] key = "Enter" ->
                  IF u.highlightIndex >= 0 /\ u.highlightIndex < Len(u.suggestions)
                  THEN selectEntry(p, u, u.suggestions[u.highlightIndex + 1])
                  ELSE u
           [] key = "Escape" ->
                  [u EXCEPT !.isOpen = FALSE, !.highlightIndex = -1]
           [] OTHER -> u

\* handleFocus
handleFocus(p, u) ==
    IF Len(u.inputValue) >= p.minChars /\ Len(u.suggestions) > 0
    THEN [u EXCEPT !.isOpen = TRUE]
    ELSE u

\* showDropdown && suggestions.length > 0: the list is rendered
listShown(p, u) ==
    u.isOpen /\ Len(u.inputValue) >= p.minChars /\ Len(u.suggestions) > 0

\* the component's state as the handlers of the current render see it, no
\* callback called yet
theUi ==
    [inputValue |-> inputValue, isOpen |-> isOpen,
     highlightIndex |-> highlightIndex, suggestions |-> suggestions,
     onChangeCalls |-> <<>>, onSelectCalls |-> <<>>,
     fetchedTrie |-> fetchedTrie, isLoading |-> isLoading, onLoadCalls |-> <<>>]

\* the state after a handler or a callback has run, the render and its
\* effects included
RenderedState(after, event) ==
    LET u == suggestionsEffect(props[1], theUi, after)
    IN /\ inputValue' = u.inputValue
       /\ isOpen' = u.isOpen
       /\ highlightIndex' = u.highlightIndex
       /\ suggestions' = u.suggestions
       /\ onChangeCalls' = u.onChangeCalls
       /\ onSelectCalls' = u.onSelectCalls
       /\ fetchedTrie' = u.fetchedTrie
       /\ isLoading' = u.isLoading
       /\ onLoadCalls' = u.onLoadCalls
       /\ lastEvent' = event
       /\ UNCHANGED packedTrie

\* the same for an event of the input: the props and the fetches are kept
Rendered(after, event) ==
    /\ RenderedState(after, event)
    /\ UNCHANGED <<props, fetches, mounted>>

UiEvent(type, key, index, value) ==
    [type |-> type, key |-> key, index |-> index, value |-> value]

UiRest ==
    /\ UNCHANGED trieVars
    /\ UNCHANGED packVars
    /\ UNCHANGED escapeVars
    /\ UNCHANGED handlerVars

\* the input element is rendered: the component is mounted and does not
\* return the loading indicator in place of the input
inputRendered ==
    mounted /\ ~(isLoading /\ props[1].loading)

\* a variant of the effect's cleanup that leaves the flag alone
cleanupKeepFlag(started) == started

\* the cleanup of the src effect: cancelled = true in the closure of the
\* effect's latest run, which started the latest fetch
cleanup(started) ==
    IF started = <<>> THEN started
    ELSE [started EXCEPT ![Len(started)].cancelled = TRUE]

\* the src effect run for the props p: the state and the fetches started
srcEffect(p, u, started) ==
    IF p.src = ""
    THEN [ui |-> [u EXCEPT !.fetchedTrie = <<>>], fetches |-> started]
    ELSE [ui |-> [u EXCEPT !.isLoading = TRUE],
          fetches |-> Append(started,
                             [src |-> p.src, cancelled |-> FALSE, pending |-> TRUE])]

\* the then / catch / finally chain of the fetch numbered id, settled with
\* the outcome: "text" when the response is ok and its text arrives
settled(u, fetch, id, outcome, text) ==
    IF fetch.cancelled THEN u
    ELSE LET r == unpackTrieOf(text)
         IN IF outcome = "text" /\ r.ok
            THEN [u EXCEPT !.fetchedTrie = <<[from |-> id, trie |-> r.trie]>>,
                           !.onLoadCalls = <<[entries |-> r.trie.size,
                                              nodes |-> r.trie.nodeCount,
                                              bytes |-> Len(text)]>>,
                           !.isLoading = FALSE]
            ELSE [u EXCEPT !.isLoading = FALSE]

\* the effect on [packedTrie]: onLoad for the packed prop
packedEffect(p, u, memo) ==
    IF memo # <<>> /\ p.packed # <<>>
    THEN [u EXCEPT !.onLoadCalls = <<[entries |-> memo[1].size,
                                      nodes |-> memo[1].nodeCount,
                                      bytes |-> Len(p.packed)]>>]
    ELSE u

\* the state of the first render
firstRender(p) ==
    [inputValue |-> p.value, isOpen |-> FALSE, highlightIndex |-> -1,
     suggestions |-> <<>>, onChangeCalls |-> <<>>, onSelectCalls |-> <<>>,
     fetchedTrie |-> <<>>, isLoading |-> FALSE, onLoadCalls |-> <<>>]

\* the component mounted with the props p: the first render and its effects
Mounted(p) ==
    LET e == srcEffect(p, firstRender(p), <<>>)
        u == packedEffect(p, e.ui, packedTrie)
    IN /\ props = <<p>>
       /\ packedTrie = packedTrieMemo(p)
       /\ inputValue = u.inputValue
       /\ isOpen = u.isOpen
       /\ highlightIndex = u.highlightIndex
       /\ suggestions = IF Len(p.value) >= p.minChars
                        THEN trieSearch(uiTrie(p, <<>>, packedTrie), p.value,
                                        p.maxSuggestions)
                        ELSE <<>>
       /\ blurTimers = 0
       /\ onChangeCalls = <<>>
       /\ onSelectCalls = <<>>
       /\ lastEvent = UiEvent("mount", "", 0, <<>>)
       /\ fetchedTrie = u.fetchedTrie
       /\ isLoading = u.isLoading
       /\ fetches = e.fetches
       /\ mounted = TRUE
       /\ onLoadCalls = u.onLoadCalls

\* the component after mounting
InitUi ==
    /\ NoTrie
    /\ CodecIdle
    /\ EscapeIdle
    /\ HandlerIdle
    /\ \E p \in PropsPool : Mounted(p)

\* the user edits the input to val
Change ==
    /\ inputRendered
    /\ \E val \in TypedValues \ {inputValue} :
           Rendered(handleChange(props[1], theUi, val), UiEvent("change", "", 0, val))
    /\ UNCHANGED blurTimers
    /\ UiRest

\* the user presses a key in the input
KeyDown ==
    /\ inputRendered
    /\ \E key \in Keys :
           Rendered(handleKeyDown(props[1], theUi, key), UiEvent("keydown", key, 0, <<>>))
    /\ UNCHANGED blurTimers
    /\ UiRest

\* the user presses the mouse button on the suggestion at index
MouseDown ==
    /\ inputRendered
    /\ listShown(props[1], theUi)
    /\ \E index \in 0..(Len(suggestions) - 1) :
           Rendered(selectEntry(props[1], theUi, suggestions[index + 1]),
                    UiEvent("mousedown", "", index, <<>>))
    /\ UNCHANGED blurTimers
    /\ UiRest

\* the mouse enters the suggestion at index:
\* setHighlightIndex(suggestions.indexOf(entry))
MouseEnter ==
    /\ inputRendered
    /\ listShown(props[1], theUi)
    /\ \E index \in 0..(Len(suggestions) - 1) :
           Rendered([theUi EXCEPT !.highlightIndex = index],
                    UiEvent("mouseenter", "", index, <<>>))
    /\ UNCHANGED blurTimers
    /\ UiRest

\* the input receives the focus
Focus ==
    /\ inputRendered
    /\ Rendered(handleFocus(props[1], theUi), UiEvent("focus", "", 0, <<>>))
    /\ UNCHANGED blurTimers
    /\ UiRest

\* the input loses the focus: handleBlur starts a timeout
Blur ==
    /\ inputRendered
    /\ blurTimers < MaxTimers
    /\ blurTimers' = blurTimers + 1
    /\ Rendered(theUi, UiEvent("blur", "", 0, <<>>))
    /\ UiRest

\* a timeout of handleBlur fires: setIsOpen(false)
BlurTimeout ==
    /\ blurTimers > 0
    /\ blurTimers' = blurTimers - 1
    /\ Rendered(IF mounted THEN [theUi EXCEPT !.isOpen = FALSE] ELSE theUi,
                UiEvent("timeout", "", 0, <<>>))
    /\ UiRest

NextUi ==
    \/ Change
    \/ KeyDown
    \/ MouseDown
    \/ MouseEnter
    \/ Focus
    \/ Blur
    \/ BlurTimeout

SpecUi == InitUi /\ [][NextUi]_vars

\* ------------------------------------------------------------------------
\* TrieAutocomplete with a src prop: the fetch of the packed trie
\* ------------------------------------------------------------------------

FetchPropsPool ==
    [entries : {UiEntries},
     minChars : {1},
     maxSuggestions : {8},
     parent : {"none"},
     value : {<<>>},
     given : {{}, {"items"}, {"entries", "items"}, {"trie", "entries", "items"}},
     src : {"", "A"},
     packed : {<<>>, PackedProp},
     trie : {<<TrieProp>>},
     items : {<<cam>>},
     loading : BOOLEAN]

InitFetch ==
    /\ NoTrie
    /\ CodecIdle
    /\ EscapeIdle
    /\ HandlerIdle
    /\ \E p \in FetchPropsPool : Mounted(p)

\* the parent renders the component with another src: the cleanup of the
\* effect's previous run, then the effect
SetSrc ==
    /\ mounted
    /\ \E new \in SrcPool \ {props[1].src} :
         /\ new # "" => Len(fetches) < MaxFetches
         /\ LET p == [props[1] EXCEPT !.src = new]
                e == srcEffect(p, theUi,
                               IF props[1].src # "" THEN cleanup(fetches) ELSE fetches)
            IN /\ props' = <<p>>
               /\ fetches' = e.fetches
               /\ RenderedState(e.ui, UiEvent("src", new, 0, <<>>))
    /\ UNCHANGED <<mounted, blurTimers>>
    /\ UiRest

\* a fetch settles: its promise chain runs to the end
FetchSettle ==
    /\ \E id \in 1..Len(fetches) : \E outcome \in Outcomes :
         /\ fetches[id].pending
         /\ fetches' = [fetches EXCEPT ![id].pending = FALSE]
         /\ RenderedState(settled(theUi, fetches[id], id,
                                  IF outcome = "badtext" THEN "text" ELSE outcome,
                                  IF outcome = "badtext" THEN BadBody
                                  ELSE BodyAt(fetches[id].src)),
                          UiEvent("settle", outcome, id, <<>>))
    /\ UNCHANGED <<props, mounted, blurTimers>>
    /\ UiRest

\* the parent removes the component: the cleanup of the effect
Unmount ==
    /\ mounted
    /\ mounted' = FALSE
    /\ fetches' = IF props[1].src # "" THEN cleanup(fetches) ELSE fetches
    /\ RenderedState(theUi, UiEvent("unmount", "", 0, <<>>))
    /\ UNCHANGED <<props, blurTimers>>
    /\ UiRest

NextFetch ==
    \/ SetSrc
    \/ FetchSettle
    \/ Unmount
    \/ Change

SpecFetch == InitFetch /\ [][NextFetch]_vars

\* every fetch settles: the browser resolves or rejects the promise
SpecFetchFair == SpecFetch /\ WF_vars(FetchSettle)

\* ------------------------------------------------------------------------
\* Properties of the RadixTrie
\* ------------------------------------------------------------------------

Range(s) == {s[i] : i \in 1..Len(s)}

Count(s, x) == Cardinality({i \in 1..Len(s) : s[i] = x})

StartsWith(text, prefix) ==
    /\ Len(prefix) <= Len(text)
    /\ SubSeq(text, 1, Len(prefix)) = prefix

\* the inserted entries whose normalized text starts with the normalized prefix
Matching(prefix) ==
    SelectSeq(inserted,
              LAMBDA e : StartsWith(normalize(caseSensitive, e.text),
                                    normalize(caseSensitive, prefix)))

Texts(s) == [i \in 1..Len(s) |-> s[i].text]

TextScores(s) == {<<s[i].text, s[i].score>> : i \in 1..Len(s)}

car == <<"c","a","r">>
card == <<"c","a","r","d">>
cart == <<"c","a","r","t">>
cat == <<"c","a","t">>
NewYork == <<"N","e","w"," ","Y","o","r","k">>

\* res is the first limit elements of a ranking of the matching entries
IsRankedPrefixOf(res, matching, limit) ==
    /\ Len(res) = Min(limit, Len(matching))
    /\ \A x \in Range(res) : Count(res, x) <= Count(matching, x)
    /\ \A i \in 1..Len(res) : \A j \in (i + 1)..Len(res) :
           compareEntries(res[i], res[j]) <= 0
    /\ \A x \in Range(matching) :
           Count(res, x) < Count(matching, x) =>
               \A i \in 1..Len(res) : compareEntries(res[i], x) <= 0

\* C2: prefix search is sound and complete.  For every prefix and limit >= 0,
\* search returns the first limit elements of the ranked list of exactly the
\* inserted entries (with multiplicity) whose normalized text starts with the
\* normalized prefix, each with the text, score and data it was inserted with;
\* the empty prefix matches every entry; in case-insensitive mode "new y" finds
\* the entry inserted as "New York" with that text.
C2_SearchSoundComplete ==
    /\ \A p \in PrefixPool : \A k \in LimitPool :
           IsRankedPrefixOf(search(caseSensitive, nodes, p, k), Matching(p), k)
    /\ Range(search(caseSensitive, nodes, <<>>, 10)) = Range(inserted)
    /\ \A e \in Range(inserted) :
           (~caseSensitive /\ e.text = NewYork) =>
               e \in Range(search(caseSensitive, nodes, <<"n","e","w"," ","y">>, 10))

C2_Witness ==
    /\ ~caseSensitive
    /\ Len(inserted) = 3
    /\ \E e \in Range(inserted) :
           /\ e.text = NewYork
           /\ search(caseSensitive, nodes, <<"n","e","w"," ","y">>, 10) = <<e>>
    /\ Len(Matching(<<"c">>)) = 2
    /\ Len(search(caseSensitive, nodes, <<"c">>, 1)) = 1
    /\ search(caseSensitive, nodes, <<"x">>, 10) = <<>>

\* C3: sorting law.  Every list search returns is ordered by score descending,
\* and adjacent results of equal score are in ascending order of their original
\* text; after inserting cat:0.5, car:0.9, card:0.8 (in any order),
\* search("ca", 10) is exactly [car, card, cat].
C3_SortingLaw ==
    /\ \A p \in PrefixPool : \A k \in LimitPool :
           LET res == search(caseSensitive, nodes, p, k)
           IN \A i \in 1..(Len(res) - 1) :
                  /\ res[i].score >= res[i + 1].score
                  /\ res[i].score = res[i + 1].score =>
                         LocaleCompare(res[i].text, res[i + 1].text) <= 0
    /\ (Len(inserted) = 3
        /\ TextScores(inserted) = {<<cat, 500>>, <<car, 900>>, <<card, 800>>})
       => Texts(search(caseSensitive, nodes, <<"c","a">>, 10)) = <<car, card, cat>>

C3_Witness ==
    /\ Len(inserted) = 3
    /\ \E p \in PrefixPool :
           LET res == search(caseSensitive, nodes, p, 10)
           IN /\ Len(res) = 3
              /\ res[1].score = res[2].score
              /\ res[1].text # res[2].text
              /\ res[2].score > res[3].score
              /\ inserted[1] = res[2]

\* C9: edge splitting.  Inserting "car", "card" and "cart" in any order into
\* an empty trie gives nodeCount 4: the root, the "car" node and the leaves
\* "d" and "t"; search("car", 10) and search("ca", 10) each return the three
\* entries and search("cars", 10) returns none.
C9_EdgeSplitting ==
    (Len(inserted) = 3 /\ Range(Texts(inserted)) = {car, card, cart})
    => /\ nodeCount = 4
       /\ Len(nodes) = 4
       /\ Len(nodes[1].children) = 1
       /\ nodes[1].children[1].label = car
       /\ LET n == nodes[nodes[1].children[1].node]
          IN /\ Texts(n.entries) = <<car>>
             /\ {c.label : c \in Range(n.children)} = {<<"d">>, <<"t">>}
             /\ Len(n.children) = 2
             /\ \A c \in Range(n.children) :
                    /\ nodes[c.node].children = <<>>
                    /\ Texts(nodes[c.node].entries) = <<car \o c.label>>
       /\ Range(search(caseSensitive, nodes, car, 10)) = Range(inserted)
       /\ Len(search(caseSensitive, nodes, car, 10)) = 3
       /\ Range(search(caseSensitive, nodes, <<"c","a">>, 10)) = Range(inserted)
       /\ Len(search(caseSensitive, nodes, <<"c","a">>, 10)) = 3
       /\ search(caseSensitive, nodes, <<"c","a","r","s">>, 10) = <<>>

C9_Witness ==
    /\ Texts(inserted) = <<card, cart, car>>
    /\ nodeCount = 4
    /\ Len(search(caseSensitive, nodes, <<"c","a">>, 10)) = 3

\* the nodes whose entry list holds e
NodesHolding(ns, e) == {n \in 1..Len(ns) : e \in Range(ns[n].entries)}

\* C10: collision rule.  An insert whose normalized key equals that of an
\* earlier insert appends its entry to the entry list of the node that holds
\* the earlier one, creates no node, grows size by one, and a search for the
\* text then returns both entries.
C10_CollisionRule ==
    [][\A o \in Range(inserted) :
          LET e == inserted'[Len(inserted')]
          IN (/\ Len(inserted') = Len(inserted) + 1
              /\ normalize(caseSensitive, o.text) = normalize(caseSensitive, e.text))
             => /\ nodeCount' = nodeCount
                /\ Len(nodes') = Len(nodes)
                /\ size' = size + 1
                /\ \E n \in NodesHolding(nodes, o) :
                       /\ nodes'[n].entries = Append(nodes[n].entries, e)
                       /\ NodesHolding(nodes', e) = {n}
                       /\ NodesHolding(nodes', o) = {n}
                /\ {o, e} \subseteq Range(search(caseSensitive, nodes', o.text, 10))]_vars

C10_Witness ==
    /\ ~caseSensitive
    /\ Len(inserted) = 3
    /\ inserted[2].text # inserted[3].text
    /\ ToLowerCase(inserted[2].text) = ToLowerCase(inserted[3].text)
    /\ \E n \in 2..Len(nodes) :
           nodes[n].entries = <<inserted[2], inserted[3]>>
    /\ nodeCount = 3

\* C19: branching-key uniqueness and non-empty labels.  After any sequence
\* of inserts (edge splits and inserts of the empty string included) every
\* edge label has length >= 1, every edge is stored in its parent's child
\* map under the first character of its label, and no two outgoing edges of
\* one node have labels with the same first character.
C19_BranchingKeys ==
    \A n \in 1..Len(nodes) :
        LET children == nodes[n].children
        IN /\ \A i \in 1..Len(children) :
                  /\ Len(children[i].label) >= 1
                  /\ children[i].key = children[i].label[1]
           /\ \A i \in 1..Len(children) : \A j \in 1..Len(children) :
                  i # j => /\ children[i].label[1] # children[j].label[1]
                           /\ children[i].key # children[j].key

C19_Witness ==
    /\ Len(inserted) = 3
    /\ inserted[1].text = <<>>
    /\ nodeCount = 4
    /\ Len(nodes[1].children) = 1
    /\ nodes[1].children[1].label = <<"c","a">>
    /\ Len(nodes[nodes[1].children[1].node].children) = 2
    /\ nodes[nodes[1].children[1].node].entries = <<>>

\* the edges that lead to node n: the parent and the edge's place in its map
EdgesTo(ns, n) ==
    UNION {{<<q, i>> : i \in {j \in 1..Len(ns[q].children) :
                                   ns[q].children[j].node = n}} :
               q \in 1..Len(ns)}

\* the concatenation of the edge labels on the path from the root to node n
RECURSIVE PathLabel(_, _)
PathLabel(ns, n) ==
    IF n = 1 \/ EdgesTo(ns, n) = {} THEN <<>>
    ELSE LET e == CHOOSE x \in EdgesTo(ns, n) : TRUE
         IN PathLabel(ns, e[1]) \o ns[e[1]].children[e[2]].label

\* every node other than the root hangs on exactly one edge, every stored
\* entry sits at the node its normalized text leads to, and every inserted
\* entry is stored at exactly one node
EntriesWhereTextEnds(cs, ns, ins) ==
    /\ \A n \in 2..Len(ns) : Cardinality(EdgesTo(ns, n)) = 1
    /\ EdgesTo(ns, 1) = {}
    /\ \A n \in 1..Len(ns) : \A i \in 1..Len(ns[n].entries) :
           (IF cs THEN ns[n].entries[i].text ELSE ToLowerCase(ns[n].entries[i].text))
               = PathLabel(ns, n)
    /\ \A i \in 1..Len(ins) : Cardinality(NodesHolding(ns, ins[i])) = 1
    /\ \A n \in 1..Len(ns) : Range(ns[n].entries) \subseteq Range(ins)
    /\ ns[1].entries # <<>> => \E i \in 1..Len(ins) : ins[i].text = <<>>

\* C20: entries sit exactly where their text ends.  After any sequence of
\* inserts every entry stored at a node has a normalized text equal to the
\* concatenation of the edge labels from the root to that node; the root
\* holds an entry only if the empty string was inserted; and an insert, with
\* or without an edge split, leaves every entry stored before at its node,
\* in its place in the node's entry list.
C20_EntriesWhereTextEnds ==
    [][/\ EntriesWhereTextEnds(caseSensitive', nodes', inserted')
       /\ Len(nodes') >= Len(nodes)
       /\ \A n \in 1..Len(nodes) :
              /\ Len(nodes'[n].entries) >= Len(nodes[n].entries)
              /\ SubSeq(nodes'[n].entries, 1, Len(nodes[n].entries))
                     = nodes[n].entries]_vars

C20_Witness ==
    /\ caseSensitive
    /\ Texts(inserted) = <<card, <<"C","a","r">>, car>>
    /\ nodeCount = 4
    /\ \E n \in 2..Len(nodes) :
           /\ Texts(nodes[n].entries) = <<car>>
           /\ PathLabel(nodes, n) = car
           /\ Len(nodes[n].children) = 1
           /\ Texts(nodes[nodes[n].children[1].node].entries) = <<card>>

\* the nodes an edge leads to from one of the nodes of the set
ChildrenOf(ns, set) ==
    UNION {{ns[n].children[i].node : i \in 1..Len(ns[n].children)} : n \in set}

\* the nodes reachable from the nodes of the set along edges
RECURSIVE ReachableFrom(_, _)
ReachableFrom(ns, set) ==
    IF ChildrenOf(ns, set) \subseteq set THEN set
    ELSE ReachableFrom(ns, set \cup ChildrenOf(ns, set))

\* the sum of the label lengths of the edges of a child map
RECURSIVE EdgeChars(_)
EdgeChars(children) ==
    IF children = <<>> THEN 0
    ELSE Len(Head(children).label) + EdgeChars(Tail(children))

\* the sum of f over the nodes of the set
RECURSIVE SumOfNodes(_, _)
SumOfNodes(f, set) ==
    IF set = {} THEN 0
    ELSE LET n == CHOOSE m \in set : TRUE
         IN f[n] + SumOfNodes(f, set \ {n})

\* C21: counters match the structure.  After any sequence of inserts
\* nodeCount is the number of nodes reachable from the root, the root
\* counted (1 for an empty trie), size is the number of insert calls and the
\* total number of entries stored over all nodes, and stats.totalEdgeChars is
\* the sum of the lengths of all edge labels.
C21_CountersMatch ==
    LET reach == ReachableFrom(nodes, {1})
    IN /\ nodeCount = Cardinality(reach)
       /\ inserted = <<>> => nodeCount = 1
       /\ size = Len(inserted)
       /\ size = SumOfNodes([n \in reach |-> Len(nodes[n].entries)], reach)
       /\ stats(theTrie).totalEdgeChars
              = SumOfNodes([n \in reach |-> EdgeChars(nodes[n].children)], reach)
       /\ stats(theTrie).entryCount = size
       /\ stats(theTrie).nodeCount = nodeCount

C21_Witness ==
    /\ Texts(inserted) = <<card, cart, NewYork>>
    /\ nodeCount = 5
    /\ size = 3
    /\ stats(theTrie).totalEdgeChars = 13

\* C22 as stated: after N >= 1 inserts into an empty trie nodeCount, which
\* counts the root, is at most 2N - 1.
C22_PatriciaBound ==
    Len(inserted) >= 1 => nodeCount <= 2 * Len(inserted) - 1

\* C22, amended: after N >= 1 inserts into an empty trie nodeCount, which
\* counts the root, is at most 2N, whatever the lengths of the inserted
\* texts; the first insert creates at most one node and every later insert
\* at most two.
C22_NodeBound ==
    [][/\ Len(inserted') >= 1 => nodeCount' <= 2 * Len(inserted')
       /\ nodeCount' - nodeCount <= (IF inserted = <<>> THEN 1 ELSE 2)
       /\ nodeCount' >= nodeCount]_vars

C22_Witness ==
    /\ Len(inserted) = 3
    /\ nodeCount = 6
    /\ Len(nodes) = 6

InsertedKeys == {normalize(caseSensitive, inserted[i].text) : i \in 1..Len(inserted)}

\* the longest common prefix of two strings
RECURSIVE LongestCommonPrefix(_, _)
LongestCommonPrefix(a, b) ==
    IF a = <<>> \/ b = <<>> \/ Head(a) # Head(b) THEN <<>>
    ELSE <<Head(a)>> \o LongestCommonPrefix(Tail(a), Tail(b))

\* the nodes of the compressed trie of a set of keys, by path: the root, the
\* keys, and the points where two keys part
CompressedPaths(keys) ==
    {<<>>} \cup keys
        \cup {LongestCommonPrefix(a, b) : a \in keys, b \in keys}

\* the shape of a trie: each node's path, the labels of its edges and the
\* number of entries it stores
Shape(ns) ==
    {[path |-> PathLabel(ns, n),
      labels |-> {ns[n].children[i].label : i \in 1..Len(ns[n].children)},
      entries |-> Len(ns[n].entries)] : n \in 1..Len(ns)}

Reverse(s) == [i \in 1..Len(s) |-> s[Len(s) + 1 - i]]

\* C26: path compression is maintained.  After any sequence of inserts every
\* node other than the root that stores no entry has at least two outgoing
\* edges, and the shape of the trie and nodeCount depend only on the multiset
\* of normalized keys: the nodes are the root, the keys and the points where
\* two keys part, each node stores as many entries as there were inserts of
\* its key, and inserting the same entries in the reverse order builds a trie
\* of the same shape and nodeCount.
C26_PathCompression ==
    /\ \A n \in 2..Len(nodes) :
           nodes[n].entries = <<>> => Len(nodes[n].children) >= 2
    /\ {PathLabel(nodes, n) : n \in 1..Len(nodes)} = CompressedPaths(InsertedKeys)
    /\ nodeCount = Cardinality(CompressedPaths(InsertedKeys))
    /\ Len(nodes) = nodeCount
    /\ \A n \in 1..Len(nodes) :
           Len(nodes[n].entries)
               = Cardinality({i \in 1..Len(inserted) :
                                  normalize(caseSensitive, inserted[i].text)
                                      = PathLabel(nodes, n)})
    /\ LET other == insertAll(newRadixTrie(caseSensitive), Reverse(inserted), 1)
       IN /\ Shape(other.nodes) = Shape(nodes)
          /\ other.nodeCount = nodeCount

C26_Witness ==
    /\ Texts(inserted) = <<card, cat, cart>>
    /\ nodeCount = 6
    /\ \E n \in 2..Len(nodes) :
           /\ nodes[n].entries = <<>>
           /\ Len(nodes[n].children) = 2
           /\ PathLabel(nodes, n) = car
    /\ nodes # insertAll(newRadixTrie(caseSensitive), Reverse(inserted), 1).nodes

\* the AutocompleteTrie that received the insert calls made so far
theAutocompleteTrie ==
    acInsertAll(newAutocompleteTrie(caseSensitive), inserted, 1)

\* C16: behavioural parity of the two tries.  After the same sequence of
\* insert(text, score, data) calls on a RadixTrie and on an AutocompleteTrie
\* built with the same caseSensitive option, both report the same size and,
\* for every prefix and limit, search returns the same list of entries in
\* the same order.
C16_Parity ==
    LET ac == theAutocompleteTrie
    IN /\ ac.size = size
       /\ \A p \in PrefixPool : \A k \in LimitPool :
              acSearch(ac, p, k) = search(caseSensitive, nodes, p, k)

C16_Witness ==
    /\ ~caseSensitive
    /\ Len(inserted) = 3
    /\ nodeCount = 4
    /\ Len(theAutocompleteTrie.acNodes) > nodeCount
    /\ theAutocompleteTrie.size = 3
    /\ Texts(acSearch(theAutocompleteTrie, <<"C","A">>, 2))
           = << <<"C","a","r">>, card >>
    /\ Len(search(caseSensitive, nodes, <<"C","A">>, 10)) = 3

\* ------------------------------------------------------------------------
\* Properties of the codec
\* ------------------------------------------------------------------------

LastCall == IF calls = <<>> THEN "none" ELSE calls[Len(calls)]

\* no two entries of the list have the same case-folded text
DistinctNormalized(entries) ==
    \A i \in 1..Len(entries) : \A j \in 1..Len(entries) :
        i # j => ToLowerCase(entries[i].text) # ToLowerCase(entries[j].text)

\* a score rounded to p decimals, in thousandths
RoundTo(score, p) == ((score * Pow10(p) + 500) \div 1000) * (1000 \div Pow10(p))

RoundedEntries(entries, p) ==
    [i \in 1..Len(entries) |->
        [text |-> entries[i].text, score |-> RoundTo(entries[i].score, p)]]

TextScoreList(s) == [i \in 1..Len(s) |-> <<s[i].text, s[i].score>>]

PackPrefixPool == {<<>>, <<"a">>, <<"A","B">>, <<"b">>, <<"-">>, <<"a","\n">>}

\* C1: round trip.  For an entry list with pairwise distinct case-folded
\* texts, unpackTrie(packTrie(entries)) answers every search(p, k) with the
\* same ranked list of texts as RadixTrie.fromEntries(entries), the scores
\* being those of the entries rounded to scorePrecision.
C1_RoundTrip ==
    (LastCall = "unpackTrie" /\ DistinctNormalized(entriesIn))
    => /\ unpackResult.status = "ok"
       /\ \A p \in PackPrefixPool : \A k \in LimitPool :
              LET direct == fromEntries(RoundedEntries(entriesIn, precision), FALSE)
              IN TextScoreList(search(caseSensitive, nodes, p, k))
                     = TextScoreList(search(FALSE, direct.nodes, p, k))

LinesOf(text) == Split(text, <<"\n">>)

\* the number of lines of the text that read "---"
SeparatorLines(text) ==
    Cardinality({i \in 1..Len(LinesOf(text)) : LinesOf(text)[i] = <<"-","-","-">>})

RECURSIVE SumOver(_, _)
SumOver(f, n) == IF n = 0 THEN 0 ELSE f[n] + SumOver(f, n - 1)

\* the number of lines reading "---" inside the entry texts
SeparatorLinesInTexts(entries) ==
    SumOver([i \in 1..Len(entries) |-> SeparatorLines(entries[i].text)], Len(entries))

VersionField(text) ==
    LET parts == Split(LinesOf(text)[1], <<":">>)
    IN IF Len(parts) >= 2 THEN parts[2] ELSE <<>>

\* C5 as stated: the text packTrie returns has a header whose version field
\* is 2 and exactly one section-separator line (two sections).
C5_VersionTwoOneSeparator ==
    packed # <<>> =>
        /\ VersionField(packed[1]) = <<"2">>
        /\ SeparatorLines(packed[1]) = 1

\* C5, amended: the text packTrie returns starts with the header line
\* PTRIE:1:CI, whose version field is 1, and packTrie writes exactly two
\* section-separator lines of its own; when no entry text has a line reading
\* "---" the text has exactly three sections (header and entry texts, score
\* line, node table).
C5_VersionOneTwoSeparators ==
    (packed # <<>> /\ LastCall # "none") =>
        /\ LinesOf(packed[1])[1] = <<"P","T","R","I","E",":","1",":","C","I">>
        /\ VersionField(packed[1]) = <<"1">>
        /\ SeparatorLines(packed[1]) = 2 + SeparatorLinesInTexts(entriesIn)
        /\ SeparatorLinesInTexts(entriesIn) = 0 =>
               Len(Split(packed[1], sectionSeparator)) = 3

C5_Witness ==
    /\ LastCall = "packTrie"
    /\ Len(entriesIn) = 2
    /\ SeparatorLinesInTexts(entriesIn) = 0
    /\ Len(Split(packed[1], sectionSeparator)) = 3
    /\ \E i \in 1..2 : entriesIn[i].score # 0

PlainTexts(entries) ==
    \A i \in 1..Len(entries) :
        /\ "\n" \notin Range(entries[i].text)
        /\ entries[i].text # <<"-","-","-">>

\* the positions (from 0) of the entries with the case-folded text of entry i
SameNormalized(entries, i) ==
    {j \in 0..(Len(entries) - 1) :
         ToLowerCase(entries[j + 1].text) = ToLowerCase(entries[i + 1].text)}

\* the last entry of the list with the case-folded text of e
LastWithTextOf(entries, e) ==
    entries[CHOOSE j \in 1..Len(entries) :
                /\ ToLowerCase(entries[j].text) = ToLowerCase(e.text)
                /\ \A k \in (j + 1)..Len(entries) :
                       ToLowerCase(entries[k].text) # ToLowerCase(e.text)]

TextLineCount(entries) ==
    SumOver([i \in 1..Len(entries) |-> Len(LinesOf(entries[i].text))], Len(entries))

\* the line of the packed text that follows the separator after the texts
LineAfterTexts(text, entries) == LinesOf(text)[TextLineCount(entries) + 3]

\* the digits after the decimal point of a written number
Decimals(part) ==
    IF "." \in Range(part) THEN Len(part) - IndexIn(part, ".") ELSE 0

AllScoresZero(entries) == \A i \in 1..Len(entries) : entries[i].score = 0

\* the line is a list of one number per entry, each the entry's score
\* rounded to p decimals and written with p decimals
IsScoreLineOf(line, entries, p) ==
    LET parts == Split(line, <<",">>)
    IN /\ Len(parts) = Len(entries)
       /\ \A i \in 1..Len(parts) :
              /\ Number(parts[i]) = RoundTo(entries[i].score, p)
              /\ Decimals(parts[i]) = p

\* C12 as stated: score table presence.  packTrie writes no score line when
\* every entry's score is exactly 0, and writes the score line, each score
\* rounded to the configured precision, when at least one score is not 0.
C12_ScoreLineOmittedWhenZero ==
    (LastCall = "packTrie" /\ entriesIn # <<>>) =>
        IF AllScoresZero(entriesIn)
        THEN ~IsScoreLineOf(LineAfterTexts(packed[1], entriesIn), entriesIn, precision)
        ELSE IsScoreLineOf(LineAfterTexts(packed[1], entriesIn), entriesIn, precision)

\* C12, amended: packTrie always writes the score line.  The packed text
\* holds, between two separator lines after the header and the entry texts,
\* one line with one value per entry, each the entry's score rounded to the
\* configured precision and written with that many decimals, also when every
\* score is 0; for an empty entry list the line is empty.  The header line
\* carries no score flag.
C12_ScoreLineAlways ==
    (packed # <<>> /\ LastCall # "none") =>
        LET lines == LinesOf(packed[1])
            k == TextLineCount(entriesIn) + 3
        IN /\ Len(lines) > k
           /\ lines[k - 1] = <<"-","-","-">>
           /\ lines[k + 1] = <<"-","-","-">>
           /\ IF entriesIn = <<>>
              THEN lines[k] = <<>>
              ELSE IsScoreLineOf(lines[k], entriesIn, precision)
           /\ lines[1] = <<"P","T","R","I","E",":","1",":","C","I">>

C12_Witness ==
    /\ LastCall = "packTrie"
    /\ Len(entriesIn) = 2
    /\ AllScoresZero(entriesIn)
    /\ precision = 2
    /\ LineAfterTexts(packed[1], entriesIn)
           = <<"0",".","0","0",",","0",".","0","0">>

\* the node records that the node table of a packed text stands for: the
\* lines after the last separator, read as parse reads them
WrittenNodes(text) ==
    LET sections == Split(text, sectionSeparator)
    IN parseNodeLines(sections[Len(sections)])

\* the descriptors that name line k: the line they are on and their place
DescriptorsOf(table, k) ==
    UNION {{<<q, j>> : j \in {d \in 1..Len(table[q + 1].children) :
                                   table[q + 1].children[d].childIndex = k}} :
               q \in 0..(Len(table) - 1)}

\* the concatenation of the unescaped labels on the path from line 0 to line k
RECURSIVE WrittenPath(_, _)
WrittenPath(table, k) ==
    IF k = 0 \/ DescriptorsOf(table, k) = {} THEN <<>>
    ELSE LET d == CHOOSE x \in DescriptorsOf(table, k) : TRUE
         IN WrittenPath(table, d[1]) \o table[d[1] + 1].children[d[2]].label

\* the lines of the node table that list the entry of position i
LinesListing(table, i) ==
    {k \in 0..(Len(table) - 1) : 1000 * i \in Range(table[k + 1].entryIndices)}

\* C24 as stated: the edge labels written to the node table are in the
\* original casing, so for every packed entry the unescaped labels on the
\* path from line 0 to the line that lists it concatenate to its text.
C24_LabelsKeepCasing ==
    (packer # <<>> /\ packed # <<>>) =>
        LET table == WrittenNodes(packed[1])
        IN \A i \in 0..(Len(entriesIn) - 1) :
               \A k \in LinesListing(table, i) :
                   WrittenPath(table, k) = entriesIn[i + 1].text

\* C24, amended: the packing trie stores lower-cased labels.  Every edge
\* label written to the node table is lower-cased, for every packed entry
\* the unescaped labels on the path from line 0 to the one line that lists it
\* concatenate to its lower-cased text, and the text in its original casing
\* is on the entry's text line of the first section.
C24_LabelsLowerCased ==
    (packer # <<>> /\ packed # <<>>) =>
        LET table == WrittenNodes(packed[1])
        IN /\ \A i \in 0..(Len(entriesIn) - 1) :
                  /\ Cardinality(LinesListing(table, i)) = 1
                  /\ \A k \in LinesListing(table, i) :
                         WrittenPath(table, k) = ToLowerCase(entriesIn[i + 1].text)
           /\ \A k \in 1..Len(table) : \A d \in 1..Len(table[k].children) :
                  table[k].children[d].label = ToLowerCase(table[k].children[d].label)
           /\ StartsWith(packed[1],
                         Join(<<headerLine>> \o Texts(entriesIn) \o <<separatorLine>>,
                              <<"\n">>))

C24_Witness ==
    /\ packer # <<>>
    /\ packed # <<>>
    /\ Len(entriesIn) = 2
    /\ entriesIn[1].text = <<"A","b">>
    /\ entriesIn[2].text = <<"a">>
    /\ Len(WrittenNodes(packed[1])) = 3
    /\ WrittenPath(WrittenNodes(packed[1]), 2) = <<"a","b">>

\* the child indices of the descriptors of the table, line by line and left
\* to right within a line
RECURSIVE ChildIndicesFrom(_, _)
ChildIndicesFrom(table, k) ==
    IF k > Len(table) THEN <<>>
    ELSE [d \in 1..Len(table[k].children) |-> table[k].children[d].childIndex]
             \o ChildIndicesFrom(table, k + 1)

\* the packing nodes reached from the root by the path label
PackNodesAt(pn, path) ==
    {n \in ReachableFrom(pn, {1}) : PathLabel(pn, n) = path}

\* C25: the node table is a breadth-first indexed tree.  The table has one
\* line per packing-trie node, line 0 is the root, the child indices read
\* line by line and left to right count 1, 2, 3, ... (the numbering of a
\* breadth-first traversal), so every index names a later line than its own,
\* increases from left to right and every line but line 0 is referenced by
\* exactly one descriptor; the descriptors of a line are in ascending order of
\* their first character, and line k lists the entries and the edge labels of
\* the packing node its path leads to.
C25_BfsIndexedTable ==
    (packer # <<>> /\ packed # <<>>) =>
        LET table == WrittenNodes(packed[1])
            pn == packer[1].packerNodes
        IN /\ Len(table) = Len(pn)
           /\ Len(table) = Cardinality(ReachableFrom(pn, {1}))
           /\ ChildIndicesFrom(table, 1) = [i \in 1..(Len(table) - 1) |-> i]
           /\ DescriptorsOf(table, 0) = {}
           /\ \A k \in 0..(Len(table) - 1) :
                  /\ k > 0 => Cardinality(DescriptorsOf(table, k)) = 1
                  /\ \A d \in 1..Len(table[k + 1].children) :
                         /\ table[k + 1].children[d].childIndex > k
                         /\ d > 1 =>
                                /\ table[k + 1].children[d - 1].childIndex
                                       < table[k + 1].children[d].childIndex
                                /\ LocaleCompare(
                                       <<table[k + 1].children[d - 1].label[1]>>,
                                       <<table[k + 1].children[d].label[1]>>) < 0
                  /\ \E n \in PackNodesAt(pn, WrittenPath(table, k)) :
                         /\ PackNodesAt(pn, WrittenPath(table, k)) = {n}
                         /\ k = 0 <=> n = 1
                         /\ table[k + 1].entryIndices
                                = [i \in 1..Len(pn[n].entryIndices) |->
                                       1000 * pn[n].entryIndices[i]]
                         /\ {table[k + 1].children[d].label :
                                 d \in 1..Len(table[k + 1].children)}
                                = {pn[n].children[d].label :
                                       d \in 1..Len(pn[n].children)}
                         /\ Len(table[k + 1].children) = Len(pn[n].children)

C25_Witness ==
    /\ packer # <<>>
    /\ packed # <<>>
    /\ Texts(entriesIn) = << <<"b","|">>, <<"a","c">>, <<"A","b">> >>
    /\ LET table == WrittenNodes(packed[1])
       IN /\ Len(table) = 5
          /\ table[1].children = << [label |-> <<"a">>, childIndex |-> 1],
                                    [label |-> <<"b","|">>, childIndex |-> 2] >>
          /\ table[2].children = << [label |-> <<"b">>, childIndex |-> 3],
                                    [label |-> <<"c">>, childIndex |-> 4] >>
          /\ table[3].entryIndices = <<0>>
          /\ packer[1].packerNodes[1].children[1].label = <<"b","|">>

\* ------------------------------------------------------------------------
\* Properties of the parser
\* ------------------------------------------------------------------------

SectionCount(text) == Len(Split(text, sectionSeparator))

HeaderFields(text) == Split(LinesOf(Split(text, sectionSeparator)[1])[1], <<":">>)

\* the version number the header declares, NaN when it declares none
DeclaredVersion(text) ==
    IF Len(HeaderFields(text)) >= 2 THEN parseInt10(HeaderFields(text)[2]) ELSE NaN

NoTrieReturned ==
    /\ unpackResult.status = "error"
    /\ nodes = <<>>
    /\ size = 0
    /\ inserted = <<>>

\* C4: format errors are fatal.  unpackTrie raises an error and returns no
\* trie whenever the text's section count is not that of a format version
\* (two or three), or the header's magic token is not PTRIE, or the header
\* declares a version number other than 1 or 2.
C4_FormatErrorsFatal ==
    (LastCall = "unpackTrie"
     /\ \/ SectionCount(packed[1]) \notin {2, 3}
        \/ HeaderFields(packed[1])[1] # <<"P","T","R","I","E">>
        \/ DeclaredVersion(packed[1]) \notin {1, 2})
    => NoTrieReturned

C4_Witness ==
    /\ LastCall = "unpackTrie"
    /\ SectionCount(packed[1]) = 3
    /\ HeaderFields(packed[1])[1] = <<"X","T","R","I","E">>
    /\ DeclaredVersion(packed[1]) = 1
    /\ unpackResult = [status |-> "error", error |-> "magic"]
    /\ NoTrieReturned

\* C6 as stated: a text of exactly two sections with a version-2 header is
\* accepted and decoded.
C6_VersionTwoAccepted ==
    (LastCall = "unpackTrie"
     /\ SectionCount(packed[1]) = 2
     /\ HeaderFields(packed[1])[1] = <<"P","T","R","I","E">>
     /\ DeclaredVersion(packed[1]) = 2)
    => unpackResult.status = "ok"

\* the text lines of the first section of a document
DocTexts(text) == Tail(LinesOf(Split(text, sectionSeparator)[1]))

\* C6, amended: the parser decodes the three-section version-1 format only.
\* A three-section text with magic PTRIE and version 1 is accepted and its
\* entries are its text lines in order; a text of exactly two sections (the
\* shape of version 2) and a text whose header declares version 2 are
\* rejected with a format error and decode to nothing.
C6_LegacyOnly ==
    LastCall = "unpackTrie" =>
        /\ (/\ SectionCount(packed[1]) = 3
            /\ HeaderFields(packed[1])[1] = <<"P","T","R","I","E">>
            /\ DeclaredVersion(packed[1]) = 1)
           => /\ unpackResult.status = "ok"
              /\ Texts(inserted) = DocTexts(packed[1])
        /\ SectionCount(packed[1]) = 2 =>
               /\ unpackResult = [status |-> "error", error |-> "sections"]
               /\ NoTrieReturned
        /\ DeclaredVersion(packed[1]) = 2 => NoTrieReturned

C6_Witness ==
    /\ LastCall = "unpackTrie"
    /\ SectionCount(packed[1]) = 2
    /\ HeaderFields(packed[1]) = << <<"P","T","R","I","E">>, <<"2">>, <<"C","I">> >>
    /\ unpackResult = [status |-> "error", error |-> "sections"]

\* ------------------------------------------------------------------------
\* Properties of the escaping
\* ------------------------------------------------------------------------

\* C8: escaping round trip.  unescapeLabel(escapeLabel(s)) = s for every
\* label s, also one holding '|', '>', the backslash or a newline.
C8_EscapeRoundTrip ==
    unescaped # <<>> => unescaped[1] = labelIn

C8_Witness ==
    /\ unescaped = <<labelIn>>
    /\ labelIn = <<"\\", "n", "|">>
    /\ escaped = << <<"\\", "\\", "n", "\\", "|">> >>

\* the numbers (in thousandths) the score lines of the documents stand for
ScoreValuesOf(line) ==
    CASE line = <<>> -> <<>>
      [] line = <<"0",".","9","0">> -> <<900>>
      [] line = <<"0",".","9","0",",","0",".","5","0">> -> <<900, 500>>

\* the text is a three-section document with magic PTRIE and version 1
WellFormedV1(text) ==
    /\ SectionCount(text) = 3
    /\ HeaderFields(text)[1] = <<"P","T","R","I","E">>
    /\ DeclaredVersion(text) = 1

\* the document with its node table replaced
WithNodeTable(text, nt) ==
    LET sections == Split(text, sectionSeparator)
    IN Join(<<sections[1], sections[2], nt>>, sectionSeparator)

\* the entries a document's text lines and score line stand for, by position
PositionalEntries(text) ==
    LET texts == DocTexts(text)
        vals == ScoreValuesOf(Split(text, sectionSeparator)[2])
    IN [i \in 1..Len(texts) |->
           [text |-> texts[i],
            score |-> IF i <= Len(vals) THEN vals[i] ELSE 0,
            data |-> "undefined"]]

\* C13: legacy positional decode with score-table underrun.  For every
\* well-formed version-1 document the i-th decoded entry has the i-th text
\* line as text and the i-th value of the score line as score, whatever the
\* node table is; when the score line has fewer values than there are texts
\* (an empty score line included) decoding does not fail and every entry
\* without a score gets score 0, so there are as many decoded entries as
\* text lines.
C13_PositionalDecode ==
    (LastCall = "unpackTrie" /\ WellFormedV1(packed[1])) =>
        /\ unpackResult.status = "ok"
        /\ inserted = PositionalEntries(packed[1])
        /\ Len(inserted) = Len(DocTexts(packed[1]))
        /\ size = Len(DocTexts(packed[1]))
        /\ \A nt \in NodeTables :
               LET other == parse(WithNodeTable(packed[1], nt))
               IN /\ other.ok
                  /\ TextScoreList(other.entries) = TextScoreList(inserted)

C13_Witness ==
    /\ LastCall = "unpackTrie"
    /\ WellFormedV1(packed[1])
    /\ Split(packed[1], sectionSeparator)[2] = <<"0",".","9","0">>
    /\ Split(packed[1], sectionSeparator)[3] = <<>>
    /\ TextScoreList(inserted) = << <<car, 900>>, <<<<"C","a","t">>, 0>> >>
    /\ size = 2

\* the node records a node table stands for, malformed descriptors left out
ExpectedNodes(shape) ==
    [i \in 1..Len(shape) |->
        [entryIndices |-> [j \in 1..Len(shape[i].indices) |->
                               1000 * shape[i].indices[j]],
         children |->
             LET good == SelectSeq(shape[i].descs, LAMBDA d : d.wellFormed)
             IN [j \in 1..Len(good) |->
                    [label |-> good[j].label, childIndex |-> good[j].childIndex]]]]

\* C14: lenient per-line recovery.  When a node-table line holds a child
\* descriptor with no unescaped '>', parse does not raise: that descriptor
\* alone is skipped, every other descriptor of the line and every other line
\* is parsed, and the document decodes to the same node records and the same
\* entries as the document without that descriptor.
C14_LenientRecovery ==
    (LastCall = "unpackTrie" /\ WellFormedV1(packed[1])) =>
        \A t \in NodeTableShapes : \A k \in BOOLEAN :
            Split(packed[1], sectionSeparator)[3] = RenderTable(t, k) =>
                /\ unpackResult.status = "ok"
                /\ parsedNodes = ExpectedNodes(t)
                /\ LET without == parse(WithNodeTable(packed[1], RenderTable(t, FALSE)))
                   IN /\ without.ok
                      /\ without.nodeTable = parsedNodes
                      /\ TextScoreList(without.entries) = TextScoreList(inserted)

C14_Witness ==
    /\ LastCall = "unpackTrie"
    /\ unpackResult.status = "ok"
    /\ Len(inserted) = 2
    /\ \E t \in NodeTableShapes :
           /\ Len(t) = 3
           /\ Split(packed[1], sectionSeparator)[3] = RenderTable(t, TRUE)
           /\ RenderTable(t, TRUE) # RenderTable(t, FALSE)
    /\ Len(parsedNodes) = 3
    /\ parsedNodes[1].children
           = << [label |-> <<"a","|","b">>, childIndex |-> 1],
                [label |-> <<"c">>, childIndex |-> 35] >>
    /\ parsedNodes[2] = [entryIndices |-> <<0, 1000>>, children |-> <<>>]

\* the document with the case field of its header replaced
WithCaseField(text, field) ==
    LET fields == HeaderFields(text)
        rest == SliceFrom(text, Len(LinesOf(text)[1]))
    IN Join(<<fields[1], fields[2], field>>, <<":">>) \o rest

\* the prefixes searched in the decoded tries
ParsePrefixPool == {<<>>, <<"c">>, <<"C">>, <<"c","a","r">>, <<"C","A">>, <<"c","a","t">>}

\* C15: the header's case flag affects only the rebuilt trie, not parsing.
\* Two packed texts that differ only in the header's case field decode to
\* the same entry list, and the trie unpackTrie returns matches prefixes
\* case-sensitively if and only if the header declares CS.
C15_CaseFlag ==
    (LastCall = "unpackTrie" /\ unpackResult.status = "ok") =>
        LET fields == HeaderFields(packed[1])
            declaredCS == Len(fields) >= 3 /\ fields[3] = <<"C","S">>
        IN /\ caseSensitive = declaredCS
           /\ \A field \in {<<"C","I">>, <<"C","S">>} :
                  LET other == parse(WithCaseField(packed[1], field))
                  IN /\ other.ok
                     /\ TextScoreList(other.entries) = TextScoreList(inserted)
                     /\ other.nodeTable = parsedNodes
                     /\ other.caseSensitive = (field = <<"C","S">>)
           /\ \A p \in ParsePrefixPool :
                  Range(search(caseSensitive, nodes, p, 10))
                      = {e \in Range(inserted) :
                             IF declaredCS
                             THEN StartsWith(e.text, p)
                             ELSE StartsWith(ToLowerCase(e.text), ToLowerCase(p))}

C15_Witness ==
    /\ LastCall = "unpackTrie"
    /\ unpackResult.status = "ok"
    /\ Len(HeaderFields(packed[1])) = 3
    /\ HeaderFields(packed[1])[3] = <<"C","S">>
    /\ caseSensitive
    /\ Texts(inserted) = <<car, <<"C","a","t">> >>
    /\ Texts(search(caseSensitive, nodes, <<"c">>, 10)) = <<car>>
    /\ Texts(search(caseSensitive, nodes, <<"C">>, 10)) = << <<"C","a","t">> >>
    /\ Len(parse(WithCaseField(packed[1], <<"C","I">>)).entries) = 2

\* ------------------------------------------------------------------------
\* Properties of createTrieHandler
\* ------------------------------------------------------------------------

\* C17: createTrieHandler packs lazily and at most once.  Creating the
\* handler does not call packTrie; once a request has been handled packTrie
\* has been called exactly once, during the first request, every later
\* request is answered from the cached string, and every request ends with
\* the same response body.
C17_PacksLazilyOnce ==
    /\ responses = <<>> => (Count(calls, "packTrie") = 0 /\ cached = <<>>)
    /\ responses # <<>> =>
           /\ Count(calls, "packTrie") = 1
           /\ cached = <<responses[1].body>>
           /\ outputs = {responses[1].body}
           /\ \A i \in 1..Len(responses) : responses[i].body = responses[1].body
           /\ StartsWith(responses[1].body,
                         <<"P","T","R","I","E",":","1",":","C","I","\n">>
                             \o Join(Texts(handler[1].entries) \o << <<"-","-","-">> >>,
                                     <<"\n">>))

C17_Witness ==
    /\ Len(responses) = 3
    /\ calls = <<"packTrie">>
    /\ Len(handler[1].entries) = 2
    /\ responses[3].body = cached[1]
    /\ responses[1].statusCode # responses[2].statusCode

\* ------------------------------------------------------------------------
\* Properties of TrieAutocomplete
\* ------------------------------------------------------------------------

\* C18: keyboard navigation.  While the dropdown is open with k >= 1
\* suggestions, ArrowDown moves the highlight from i to i+1 and from k-1 or
\* -1 to 0, ArrowUp moves it from i to i-1 and from 0 or -1 to k-1; Enter
\* with a highlighted suggestion calls onSelect exactly once with that
\* suggestion, closes the dropdown and resets the highlight to -1, Enter
\* with no highlight selects nothing, and Escape closes the dropdown and
\* resets the highlight without calling onSelect.
C18_KeyboardNavigation ==
    [][(isOpen /\ Len(suggestions) >= 1 /\ lastEvent'.type = "keydown") =>
          LET k == Len(suggestions)
              i == highlightIndex
              key == lastEvent'.key
          IN /\ key = "ArrowDown" =>
                    /\ highlightIndex' = (IF i = k - 1 \/ i = -1 THEN 0 ELSE i + 1)
                    /\ isOpen'
                    /\ onSelectCalls' = <<>>
             /\ key = "ArrowUp" =>
                    /\ highlightIndex' = (IF i = 0 \/ i = -1 THEN k - 1 ELSE i - 1)
                    /\ isOpen'
                    /\ onSelectCalls' = <<>>
             /\ (key = "Enter" /\ i >= 0) =>
                    /\ onSelectCalls' = <<suggestions[i + 1]>>
                    /\ ~isOpen'
                    /\ highlightIndex' = -1
             /\ (key = "Enter" /\ i = -1) =>
                    /\ onSelectCalls' = <<>>
                    /\ onChangeCalls' = <<>>
                    /\ UNCHANGED <<inputValue, isOpen, highlightIndex, suggestions>>
             /\ key = "Escape" =>
                    /\ ~isOpen'
                    /\ highlightIndex' = -1
                    /\ onSelectCalls' = <<>>
                    /\ UNCHANGED <<inputValue, suggestions>>]_vars

C18_Witness ==
    /\ lastEvent = UiEvent("keydown", "Enter", 0, <<>>)
    /\ props[1].parent = "none"
    /\ props[1].maxSuggestions = 8
    /\ Len(onSelectCalls) = 1
    /\ onSelectCalls[1].text = <<"c","a","t">>
    /\ onChangeCalls = << <<"c","a","t">> >>
    /\ inputValue = <<"c","a","t">>
    /\ ~isOpen
    /\ highlightIndex = -1
    /\ Len(suggestions) = 1

\* C29 as stated: highlightIndex is -1 or an index into the current
\* suggestions, whatever the input changes, key presses, hovers and
\* selections were.
C29_HighlightInRange ==
    props # <<>> => (-1 <= highlightIndex /\ highlightIndex < Len(suggestions))

\* the fetch numbered id was started for a src that is no longer the src
\* prop, or the component has unmounted
Superseded(id) ==
    \/ ~mounted
    \/ id < Len(fetches)
    \/ props[1].src # fetches[id].src

\* C27: superseded fetches are ignored.  Once the src prop has changed or
\* the component has unmounted, the fetch started for the old src, however
\* and whenever it settles, does not set fetchedTrie, does not call onLoad
\* and does not change isLoading.
C27_SupersededIgnored ==
    [][\A id \in 1..Len(fetches) :
          (/\ Len(fetches') = Len(fetches)
           /\ fetches[id].pending
           /\ ~fetches'[id].pending
           /\ Superseded(id))
          => /\ fetchedTrie' = fetchedTrie
             /\ onLoadCalls' = <<>>
             /\ isLoading' = isLoading
             /\ suggestions' = suggestions]_vars

C27_Witness ==
    /\ mounted
    /\ lastEvent = UiEvent("settle", "text", 1, <<>>)
    /\ Len(fetches) = 2
    /\ fetches[1].src = "A"
    /\ fetches[2].src = "B"
    /\ fetches[2].pending
    /\ isLoading
    /\ fetchedTrie = <<>>

\* a fetch for the current value of src is outstanding
CurrentFetchPending ==
    /\ fetches # <<>>
    /\ fetches[Len(fetches)].pending
    /\ fetches[Len(fetches)].src = props[1].src

\* C28 as stated: the loading state is released.  Whenever the component is
\* mounted with isLoading true and no fetch for the current src outstanding
\* (the fetch has settled, or src was cleared or changed while it was in
\* flight), isLoading eventually becomes false, unless a fetch for the
\* current src is started or the component unmounts.
C28_LoadingReleased ==
    (mounted /\ isLoading /\ ~CurrentFetchPending)
        ~> (~mounted \/ ~isLoading \/ CurrentFetchPending)

\* the entries of the data source that has priority: the response to the
\* current src once a trie has been fetched, then the packed prop, the trie
\* prop, the entries prop, the items prop
PriorityEntries ==
    LET p == props[1]
    IN IF fetchedTrie # <<>> THEN {IF p.src = "A" THEN cab ELSE cad}
       ELSE IF p.packed # <<>> THEN {cap}
       ELSE IF "trie" \in p.given THEN {can}
       ELSE IF "entries" \in p.given THEN {p.entries[i].text : i \in 1..Len(p.entries)}
       ELSE IF "items" \in p.given THEN {p.items[i] : i \in 1..Len(p.items)}
       ELSE {}

\* C30 as stated: data-source priority without stale data.  The suggestions
\* come from the source of highest priority among src, packed, trie, entries
\* and items, and a fetched trie in use was unpacked from the response to the
\* current value of src: after src changes from A to B the trie fetched for A
\* is not used.
C30_PriorityNoStale ==
    mounted =>
        /\ fetchedTrie # <<>> =>
               /\ props[1].src # ""
               /\ fetches[fetchedTrie[1].from].src = props[1].src
        /\ Len(inputValue) >= props[1].minChars =>
               {suggestions[i].text : i \in 1..Len(suggestions)}
                   = {t \in PriorityEntries : StartsWith(t, inputValue)}

====
